---------------------------- MODULE Spec2Model ----------------------------
(***************************************************************************)
(* A model of pythonj's translator (src/pythonj.py): the Java IR with its  *)
(* peephole simplifiers, the constant pool, and the lowering visitor       *)
(* PythonjVisitor as a state machine.  The visitor's fields are the        *)
(* variables; a handler that recurses into child statements is cut at the  *)
(* recursive calls into one action per straight-line segment, its locals   *)
(* kept in a frame of `stack` (the Python call stack).  The input AST is   *)
(* drawn node by node from bounded sets as the traversal proceeds.         *)
(***************************************************************************)
EXTENDS Integers, Sequences, FiniteSets, TLC

VARIABLES
    n_errors,           \* PythonjVisitor.n_errors
    n_temps,            \* PythonjVisitor.n_temps
    global_names,       \* the set object created in __init__
    local_names,        \* the set object created by the latest visit_FunctionDef
    names,              \* reference: "global_names" or "local_names"
    explicit_globals,   \* PythonjVisitor.explicit_globals
    heap,               \* the statement-list objects: heap[0] is global_code
    code,               \* reference into heap: the active statement list
    n_alloc,            \* number of list objects created by new_block so far
    all_ints,           \* EmitContext.all_ints
    all_strings,        \* EmitContext.all_strings (value -> index)
    all_bytes,          \* EmitContext.all_bytes (value -> index)
    in_function,        \* PythonjVisitor.in_function
    used_expr_discard,  \* PythonjVisitor.used_expr_discard
    break_name,         \* PythonjVisitor.break_name
    functions,          \* PythonjVisitor.functions (name -> call body)
    allow_intrinsics,   \* PythonjVisitor.allow_intrinsics
    stack,              \* frames of the handlers that are inside a child visit
    fuel,               \* AST nodes the input may still contain
    last,               \* observation: the handler segment that ran last
    obs,                \* observation: what the current function body did
    main                \* the driver main(): its position, loop index and effects

vars == <<n_errors, n_temps, global_names, local_names, names, explicit_globals,
          heap, code, n_alloc, all_ints, all_strings, all_bytes, in_function,
          used_expr_discard, break_name, functions, allow_intrinsics, stack,
          fuel, last, obs, main>>

(***************************************************************************)
(* Bounds of the model.                                                    *)
(***************************************************************************)
MaxStmts == 4
MaxDepth == 2
MaxLiterals == 3
MaxCompares == 3
MaxBoolOperands == 3
MaxFlowStmts == 3
MaxLoopStmts == 3
MaxLowerStmts == 2
MaxDefStmts == 4
MaxEmitStmts == 3
MaxErrStmts == 3
MaxUnits == 2
MaxUnitStmts == 2
MaxRecStmts == 3
MaxEndsStmts == 3
MaxTempStmts == 4
MaxWriteStmts == 3
MaxNullStmts == 3
MaxElts == 2
MaxUnpackStmts == 2
MaxBytesLen == 2
MaxBytesStmts == 1
MaxDiscardStmts == 4

\* Python's None, where the source uses it for an absent string or expression.
None == "None"

BUILTINS ==
    {"abs", "all", "any", "bool", "bytearray", "bytes", "chr", "dict",
     "enumerate", "getattr", "hash", "hex", "int", "isinstance", "issubclass",
     "iter", "len", "list", "max", "min", "next", "object", "open", "ord",
     "print", "range", "repr", "reversed", "set", "slice", "sorted", "str",
     "sum", "tuple", "type", "zip", "ArithmeticError", "AssertionError",
     "IndexError", "KeyError", "LookupError", "StopIteration", "TypeError",
     "ValueError", "ZeroDivisionError"}

\* int_name: the Java name of the PyInt singleton of value i.
int_name(i) ==
    IF i < 0 THEN "int_singleton_neg" \o ToString(-i)
    ELSE "int_singleton_" \o ToString(i)

(***************************************************************************)
(* The Java expression IR (dataclasses JavaIntLiteral .. JavaAssignExpr).  *)
(***************************************************************************)
JavaIntLiteral(value, suffix) ==
    [j |-> "JavaIntLiteral", value |-> value, suffix |-> suffix]
JavaStrLiteral(s) == [j |-> "JavaStrLiteral", s |-> s]
JavaIdentifier(name) == [j |-> "JavaIdentifier", name |-> name]
JavaField(obj, field) == [j |-> "JavaField", obj |-> obj, field |-> field]
JavaArrayAccess(obj, index) ==
    [j |-> "JavaArrayAccess", obj |-> obj, index |-> index]
JavaUnaryOp(op, operand) == [j |-> "JavaUnaryOp", op |-> op, operand |-> operand]
JavaBinaryOp(op, lhs, rhs) ==
    [j |-> "JavaBinaryOp", op |-> op, lhs |-> lhs, rhs |-> rhs]
JavaCondOp(cond, true, false) ==
    [j |-> "JavaCondOp", cond |-> cond, true |-> true, false |-> false]
JavaCreateObject(type, args) ==
    [j |-> "JavaCreateObject", type |-> type, args |-> args]
JavaCreateArray(type, elts) ==
    [j |-> "JavaCreateArray", type |-> type, elts |-> elts]
JavaMethodCall(obj, method, args) ==
    [j |-> "JavaMethodCall", obj |-> obj, method |-> method, args |-> args]
JavaAssignExpr(lhs, rhs) == [j |-> "JavaAssignExpr", lhs |-> lhs, rhs |-> rhs]

\* The absent Optional[JavaExpr] of JavaVariableDecl.value.
NoValue == [j |-> "NoValue"]

(***************************************************************************)
(* The Java statement IR.  ends_control_flow is the method of each class;  *)
(* the constructors of the compound statements simplify their blocks as    *)
(* the __post_init__ methods do.                                           *)
(***************************************************************************)
RECURSIVE ends_control_flow(_)

block_ends_control_flow(block) ==
    Len(block) > 0 /\ ends_control_flow(block[Len(block)])

\* A try statement that answers by its finally body and its catch clause alone.
JavaTryStatement_ends_control_flow_as_listed(s) ==
    IF block_ends_control_flow(s.finally_body) THEN TRUE
    ELSE IF s.exc_type # None
         THEN block_ends_control_flow(s.try_body) /\ block_ends_control_flow(s.catch_body)
         ELSE FALSE

JavaTryStatement_ends_control_flow(s) ==
    IF block_ends_control_flow(s.finally_body) THEN TRUE
    ELSE IF s.exc_type # None
         THEN block_ends_control_flow(s.try_body) /\ block_ends_control_flow(s.catch_body)
         ELSE block_ends_control_flow(s.try_body)

JavaIfStatement_ends_control_flow(s) ==
    block_ends_control_flow(s.body) /\ block_ends_control_flow(s.orelse)

ends_control_flow(s) ==
    CASE s.j \in {"JavaBreakStatement", "JavaContinueStatement",
                  "JavaReturnStatement", "JavaThrowStatement"} -> TRUE
      [] s.j = "JavaIfStatement" -> JavaIfStatement_ends_control_flow(s)
      [] s.j = "JavaTryStatement" -> JavaTryStatement_ends_control_flow(s)
      [] OTHER -> FALSE

RECURSIVE block_simplify_loop(_, _, _)
block_simplify_loop(block, i, ret) ==
    IF i > Len(block) THEN ret
    ELSE IF ends_control_flow(block[i]) THEN Append(ret, block[i])
         ELSE block_simplify_loop(block, i + 1, Append(ret, block[i]))

\* A block_simplify that keeps every statement.
block_simplify_keep_all(block) == block

block_simplify(block) == block_simplify_loop(block, 1, <<>>)

JavaVariableDecl(type, name, value) ==
    [j |-> "JavaVariableDecl", type |-> type, name |-> name, value |-> value]
JavaAssignStatement(lhs, rhs) ==
    [j |-> "JavaAssignStatement", lhs |-> lhs, rhs |-> rhs]
JavaExprStatement(call) == [j |-> "JavaExprStatement", call |-> call]
JavaBreakStatement(name) == [j |-> "JavaBreakStatement", name |-> name]
JavaContinueStatement == [j |-> "JavaContinueStatement"]
JavaReturnStatement(expr) == [j |-> "JavaReturnStatement", expr |-> expr]
JavaThrowStatement(expr) == [j |-> "JavaThrowStatement", expr |-> expr]
JavaIfStatement(cond, body, orelse) ==
    [j |-> "JavaIfStatement", cond |-> cond,
     body |-> block_simplify(body), orelse |-> block_simplify(orelse)]
JavaWhileStatement(cond, body) ==
    [j |-> "JavaWhileStatement", cond |-> cond, body |-> block_simplify(body)]
JavaForStatement(init_type, init_name, init_value, cond, incr_name, incr_value, body) ==
    [j |-> "JavaForStatement", init_type |-> init_type, init_name |-> init_name,
     init_value |-> init_value, cond |-> cond, incr_name |-> incr_name,
     incr_value |-> incr_value, body |-> block_simplify(body)]
JavaTryStatement(try_body, exc_type, exc_name, catch_body, finally_body) ==
    [j |-> "JavaTryStatement", try_body |-> block_simplify(try_body),
     exc_type |-> exc_type, exc_name |-> exc_name,
     catch_body |-> block_simplify(catch_body),
     finally_body |-> block_simplify(finally_body)]
JavaLabeledBlock(name, body) ==
    [j |-> "JavaLabeledBlock", name |-> name, body |-> block_simplify(body)]

(***************************************************************************)
(* Peephole simplifiers.                                                   *)
(***************************************************************************)
unary_op(op, operand) ==
    IF op = "!" /\ operand.j = "JavaIdentifier" /\ operand.name = "false"
    THEN JavaIdentifier("true")
    ELSE IF op = "!" /\ operand.j = "JavaIdentifier" /\ operand.name = "true"
         THEN JavaIdentifier("false")
         ELSE JavaUnaryOp(op, operand)

bool_value(expr) ==
    IF /\ expr.j = "JavaMethodCall"
       /\ expr.obj.j = "JavaIdentifier"
       /\ expr.obj.name = "PyBool"
       /\ expr.method = "create"
       /\ Len(expr.args) = 1
    THEN expr.args[1]
    ELSE IF /\ expr.j = "JavaField"
            /\ expr.obj.j = "JavaIdentifier"
            /\ expr.obj.name = "PyBool"
            /\ expr.field \in {"false_singleton", "true_singleton"}
         THEN IF expr.field = "false_singleton"
              THEN JavaIdentifier("false")
              ELSE JavaIdentifier("true")
         ELSE JavaMethodCall(expr, "boolValue", <<>>)

RECURSIVE chained_binary_op_loop(_, _, _, _)
chained_binary_op_loop(op, exprs, i, expr) ==
    IF i > Len(exprs) THEN expr
    ELSE chained_binary_op_loop(op, exprs, i + 1, JavaBinaryOp(op, expr, exprs[i]))

chained_binary_op(op, exprs) == chained_binary_op_loop(op, exprs, 2, exprs[1])

if_statement(cond, body, orelse) ==
    IF cond.j = "JavaIdentifier" /\ cond.name = "true" THEN body
    ELSE IF cond.j = "JavaIdentifier" /\ cond.name = "false" THEN orelse
         ELSE <<JavaIfStatement(cond, body, orelse)>>

while_statement(cond, body) ==
    IF cond.j = "JavaIdentifier" /\ cond.name = "false" THEN <<>>
    ELSE <<JavaWhileStatement(cond, body)>>

(***************************************************************************)
(* Python values of ast.Constant nodes: [ty, ...] with ty the Python type. *)
(* A bool is an int in Python (isinstance(True, int)), so the branches of  *)
(* emit_constant are tried in the source's order.                          *)
(***************************************************************************)
PyNoneValue == [ty |-> "NoneType"]
PyBoolValue(b) == [ty |-> "bool", b |-> b]
PyIntValue(i) == [ty |-> "int", i |-> i]
PyStrValue(s) == [ty |-> "str", s |-> s]
PyBytesValue(bs) == [ty |-> "bytes", bs |-> bs]
PyFloatValue == [ty |-> "float"]

isinstance_int(value) == value.ty \in {"int", "bool"}
int_of(value) == IF value.ty = "bool" THEN (IF value.b THEN 1 ELSE 0) ELSE value.i

(***************************************************************************)
(* The part of the visitor an expression visit can change, threaded        *)
(* through the recursive visit: the temp counter, the statements appended  *)
(* to self.code (out), the constant pool, the error count and the names    *)
(* added to self.names; refs is the observation of the ident_expr calls    *)
(* made and literals that of the values given to emit_constant.            *)
(***************************************************************************)
Slice ==
    [n_temps |-> n_temps, out |-> <<>>, all_ints |-> all_ints,
     all_strings |-> all_strings, all_bytes |-> all_bytes,
     n_errors |-> n_errors, names_added |-> {}, refs |-> <<>>, literals |-> <<>>]

\* PythonjVisitor.error: print the diagnostic, count it.
error(s) == [s EXCEPT !.n_errors = @ + 1]

\* PythonjVisitor.make_temp: the name, and the visitor with the counter advanced.
temp_name_of(n) == "temp" \o ToString(n)
\* A make_temp that does not advance the counter.
make_temp_same(s) == [name |-> temp_name_of(s.n_temps), s |-> s]

\* A make_temp that numbers the temps 0, 1, 0, 1, ...
make_temp_of_two(s) ==
    [name |-> temp_name_of(s.n_temps % 2), s |-> [s EXCEPT !.n_temps = @ + 1]]

make_temp(s) == [name |-> temp_name_of(s.n_temps), s |-> [s EXCEPT !.n_temps = @ + 1]]

code_append(s, stmt) == [s EXCEPT !.out = Append(@, stmt)]

\* An ident_expr that tests the scope before the built-in set.
ident_expr_scope_first(name) ==
    IF allow_intrinsics /\ name = "__pythonj_null__"
    THEN JavaIdentifier("null")
    ELSE IF in_function /\ name \notin global_names /\ name \notin explicit_globals
         THEN JavaIdentifier("pylocal_" \o name)
         ELSE IF name \in BUILTINS
              THEN JavaField(JavaIdentifier("Runtime"), "pyglobal_" \o name)
              ELSE JavaIdentifier("pyglobal_" \o name)

\* An ident_expr that takes every name met in a function for a local of it.
ident_expr_local_first(name) ==
    IF allow_intrinsics /\ name = "__pythonj_null__"
    THEN JavaIdentifier("null")
    ELSE IF name \in BUILTINS
         THEN JavaField(JavaIdentifier("Runtime"), "pyglobal_" \o name)
         ELSE IF in_function /\ name \notin explicit_globals
              THEN JavaIdentifier("pylocal_" \o name)
              ELSE JavaIdentifier("pyglobal_" \o name)

ident_expr(name) ==
    IF allow_intrinsics /\ name = "__pythonj_null__"
    THEN JavaIdentifier("null")
    ELSE IF name \in BUILTINS
         THEN JavaField(JavaIdentifier("Runtime"), "pyglobal_" \o name)
         ELSE IF in_function /\ name \notin global_names /\ name \notin explicit_globals
              THEN JavaIdentifier("pylocal_" \o name)
              ELSE JavaIdentifier("pyglobal_" \o name)

\* One ident_expr call as the observation records it.
RefOf(name) ==
    [name |-> name, expr |-> ident_expr(name), infn |-> in_function,
     declared |-> (name \in obs.declared), inglobals |-> (name \in global_names)]

\* A pool that numbers a value again each time it is recorded.
record_singleton_again(pool, key) ==
    (key :> Cardinality(DOMAIN pool)) @@ pool

\* `if value not in pool: pool[value] = len(pool)` of emit_constant.
record_singleton(pool, key) ==
    IF key \notin DOMAIN pool
    THEN pool @@ (key :> Cardinality(DOMAIN pool))
    ELSE pool

emit_constant(value, s0) ==
    LET s == [s0 EXCEPT !.literals = Append(@, value)] IN
    IF value.ty = "NoneType"
    THEN [e |-> JavaField(JavaIdentifier("PyNone"), "singleton"), s |-> s]
    ELSE IF value.ty = "bool"
    THEN [e |-> JavaField(JavaIdentifier("PyBool"),
                          (IF value.b THEN "true" ELSE "false") \o "_singleton"),
          s |-> s]
    ELSE IF isinstance_int(value)
    THEN IF 0 <= int_of(value) /\ int_of(value) <= 1
         THEN [e |-> JavaField(JavaIdentifier("PyInt"),
                               "singleton_" \o ToString(int_of(value))),
               s |-> s]
         ELSE [e |-> JavaIdentifier(int_name(int_of(value))),
               s |-> [s EXCEPT !.all_ints = @ \cup {int_of(value)}]]
    ELSE IF value.ty = "str"
    THEN IF value.s = ""
         THEN [e |-> JavaField(JavaIdentifier("PyString"), "empty_singleton"), s |-> s]
         ELSE LET strings == record_singleton(s.all_strings, value.s)
              IN [e |-> JavaIdentifier("str_singleton_" \o ToString(strings[value.s])),
                  s |-> [s EXCEPT !.all_strings = strings]]
    ELSE LET bytes == record_singleton(s.all_bytes, value.bs)
         IN [e |-> JavaIdentifier("bytes_singleton_" \o ToString(bytes[value.bs])),
             s |-> [s EXCEPT !.all_bytes = bytes]]

(***************************************************************************)
(* Python AST expression nodes: [t |-> <class name>, <fields of the        *)
(* class>].  Operators are the class names of the ast operator nodes.      *)
(***************************************************************************)
Name(id) == [t |-> "Name", id |-> id]
Constant(value) == [t |-> "Constant", value |-> value]
UnaryOp(op, operand) == [t |-> "UnaryOp", op |-> op, operand |-> operand]
BinOp(left, op, right) == [t |-> "BinOp", left |-> left, op |-> op, right |-> right]
Compare(left, ops, comparators) ==
    [t |-> "Compare", left |-> left, ops |-> ops, comparators |-> comparators]
BoolOp(op, values) == [t |-> "BoolOp", op |-> op, values |-> values]
IfExp(test, body, orelse) == [t |-> "IfExp", test |-> test, body |-> body, orelse |-> orelse]
Call(func, args) == [t |-> "Call", func |-> func, args |-> args]
Subscript(value, slice) == [t |-> "Subscript", value |-> value, slice |-> slice]
Attribute(value, attr) == [t |-> "Attribute", value |-> value, attr |-> attr]
\* An expression class without a visit_ method (generic_visit takes it).
Lambda == [t |-> "Lambda"]

\* visit_Invert .. visit_Sub, visit_Lt .. visit_GtE: the method name of an operator.
visit_op(op) ==
    CASE op = "Invert" -> "invert" [] op = "UAdd" -> "pos" [] op = "USub" -> "neg"
      [] op = "Add" -> "add" [] op = "BitAnd" -> "and" [] op = "BitOr" -> "or"
      [] op = "BitXor" -> "xor" [] op = "Div" -> "truediv"
      [] op = "FloorDiv" -> "floordiv" [] op = "LShift" -> "lshift"
      [] op = "MatMult" -> "matmul" [] op = "Mod" -> "mod" [] op = "Mult" -> "mul"
      [] op = "Pow" -> "pow" [] op = "RShift" -> "rshift" [] op = "Sub" -> "sub"
      [] op = "Lt" -> "lt" [] op = "LtE" -> "le" [] op = "Gt" -> "gt"
      [] op = "GtE" -> "ge"

RECURSIVE visit(_, _)
RECURSIVE visit_Compare_loop(_, _, _, _, _)
RECURSIVE emit_bool_op(_, _, _)
RECURSIVE visit_all(_, _, _, _)

\* [self.visit(x) for x in nodes], left to right.
visit_all(nodes, i, es, s) ==
    IF i > Len(nodes) THEN [es |-> es, s |-> s]
    ELSE LET r == visit(nodes[i], s)
         IN visit_all(nodes, i + 1, Append(es, r.e), r.s)

\* One term of a comparison, by the operator's class.
compare_term(op, lhs, rhs) ==
    CASE op = "Is" -> JavaBinaryOp("==", lhs, rhs)
      [] op = "IsNot" -> JavaBinaryOp("!=", lhs, rhs)
      [] op = "In" -> JavaMethodCall(lhs, "in", <<rhs>>)
      [] op = "NotIn" -> unary_op("!", JavaMethodCall(lhs, "in", <<rhs>>))
      [] op = "Eq" -> JavaMethodCall(lhs, "equals", <<rhs>>)
      [] op = "NotEq" -> unary_op("!", JavaMethodCall(lhs, "equals", <<rhs>>))
      [] OTHER -> JavaMethodCall(lhs, visit_op(op), <<rhs>>)

\* A visit_Compare loop whose next term takes the comparand's expression again as
\* its left operand, instead of the temp.
visit_Compare_loop_reread(node, i, lhs, exprs, s) ==
    LET n_compares == Len(node.comparators) IN
    IF i >= n_compares THEN [exprs |-> exprs, s |-> s]
    ELSE LET r == visit(node.comparators[i + 1], s)
             cached == i < n_compares - 1
             t == make_temp(r.s)
             temp_name == IF cached THEN t.name ELSE "__unused__"
             s1 == IF cached
                   THEN code_append(t.s, JavaVariableDecl("PyObject", temp_name, NoValue))
                   ELSE r.s
             rhs == IF cached THEN JavaAssignExpr(JavaIdentifier(temp_name), r.e) ELSE r.e
             term == compare_term(node.ops[i + 1], lhs, rhs)
         IN visit_Compare_loop(node, i + 1, r.e, Append(exprs, term), s1)

\* The loop of visit_Compare over zip(node.ops, node.comparators), i from 0.
visit_Compare_loop(node, i, lhs, exprs, s) ==
    LET n_compares == Len(node.comparators) IN
    IF i >= n_compares THEN [exprs |-> exprs, s |-> s]
    ELSE LET r == visit(node.comparators[i + 1], s)
             cached == i < n_compares - 1
             t == make_temp(r.s)
             temp_name == IF cached THEN t.name ELSE "__unused__"
             s1 == IF cached
                   THEN code_append(t.s, JavaVariableDecl("PyObject", temp_name, NoValue))
                   ELSE r.s
             rhs == IF cached THEN JavaAssignExpr(JavaIdentifier(temp_name), r.e) ELSE r.e
             term == compare_term(node.ops[i + 1], lhs, rhs)
         IN visit_Compare_loop(node, i + 1,
                               IF cached THEN JavaIdentifier(temp_name) ELSE lhs,
                               Append(exprs, term), s1)

visit_Compare(node, s) ==
    LET l == visit(node.left, s)
        r == visit_Compare_loop(node, 0, l.e, <<>>, l.s)
    IN [e |-> JavaMethodCall(JavaIdentifier("PyBool"), "create",
                             <<chained_binary_op("&&", r.exprs)>>),
        s |-> r.s]

\* An emit_bool_op that lowers `and` as it lowers `or`.
emit_bool_op_as_or(op, values, s) ==
    IF Len(values) = 1 THEN visit(values[1], s)
    ELSE LET t == make_temp(s)
             temp_name == t.name
             s1 == code_append(t.s, JavaVariableDecl("PyObject", temp_name, NoValue))
             lhs == visit(values[1], s1)
             rhs == emit_bool_op(op, Tail(values), lhs.s)
             test == bool_value(JavaAssignExpr(JavaIdentifier(temp_name), lhs.e))
         IN [e |-> JavaCondOp(test, JavaIdentifier(temp_name), rhs.e), s |-> rhs.s]

emit_bool_op(op, values, s) ==
    IF Len(values) = 1 THEN visit(values[1], s)
    ELSE LET t == make_temp(s)
             temp_name == t.name
             s1 == code_append(t.s, JavaVariableDecl("PyObject", temp_name, NoValue))
             lhs == visit(values[1], s1)
             rhs == emit_bool_op(op, Tail(values), lhs.s)
             test == bool_value(JavaAssignExpr(JavaIdentifier(temp_name), lhs.e))
         IN IF op = "And"
            THEN [e |-> JavaCondOp(test, rhs.e, JavaIdentifier(temp_name)), s |-> rhs.s]
            ELSE [e |-> JavaCondOp(test, JavaIdentifier(temp_name), rhs.e), s |-> rhs.s]

visit_BoolOp(node, s) == emit_bool_op(node.op, node.values, s)

visit_UnaryOp(node, s) ==
    LET r == visit(node.operand, s) IN
    IF node.op = "Not"
    THEN [e |-> JavaMethodCall(JavaIdentifier("PyBool"), "create",
                               <<unary_op("!", bool_value(r.e))>>),
          s |-> r.s]
    ELSE [e |-> JavaMethodCall(r.e, visit_op(node.op), <<>>), s |-> r.s]

visit_BinOp(node, s) ==
    LET l == visit(node.left, s)
        r == visit(node.right, l.s)
    IN [e |-> JavaMethodCall(l.e, visit_op(node.op), <<r.e>>), s |-> r.s]

visit_IfExp(node, s) ==
    LET c == visit(node.test, s)
        b == visit(node.body, c.s)
        o == visit(node.orelse, b.s)
    IN [e |-> JavaCondOp(bool_value(c.e), b.e, o.e), s |-> o.s]

visit_Constant(node, s) ==
    IF node.value.ty \in {"NoneType", "bool", "int", "str", "bytes"}
    THEN emit_constant(node.value, s)
    ELSE [e |-> JavaIdentifier("__cannot_translate_constant__"), s |-> error(s)]

\* emit_star_expanded for argument lists without a Starred element.
emit_star_expanded(nodes, s) ==
    LET r == visit_all(nodes, 1, <<>>, s)
    IN [e |-> JavaCreateArray("PyObject", r.es), s |-> r.s]

\* A visit_Call that lowers __pythonj_next__ whatever the intrinsics flag.
visit_Call_intrinsic(node, s) ==
    IF node.func.t = "Name" /\ node.func.id = "__pythonj_next__"
    THEN LET a == visit(node.args[1], s)
         IN [e |-> JavaMethodCall(a.e, "next", <<>>), s |-> a.s]
    ELSE LET func == visit(node.func, s)
             args == emit_star_expanded(node.args, func.s)
             kwargs == JavaIdentifier("null")
         IN [e |-> JavaMethodCall(func.e, "call", <<args.e, kwargs>>), s |-> args.s]

\* visit_Call for calls without keywords.
visit_Call(node, s) ==
    IF allow_intrinsics /\ node.func.t = "Name" /\ node.func.id = "__pythonj_next__"
    THEN LET a == visit(node.args[1], s)
         IN [e |-> JavaMethodCall(a.e, "next", <<>>), s |-> a.s]
    ELSE LET func == visit(node.func, s)
             args == emit_star_expanded(node.args, func.s)
             kwargs == JavaIdentifier("null")
         IN [e |-> JavaMethodCall(func.e, "call", <<args.e, kwargs>>), s |-> args.s]

visit_Name(node, s) ==
    [e |-> ident_expr(node.id), s |-> [s EXCEPT !.refs = Append(@, RefOf(node.id))]]

visit_Subscript(node, s) ==
    LET v == visit(node.value, s)
        i == visit(node.slice, v.s)
    IN [e |-> JavaMethodCall(v.e, "getItem", <<i.e>>), s |-> i.s]

visit_Attribute(node, s) ==
    LET v == visit(node.value, s)
    IN [e |-> JavaMethodCall(v.e, "getAttr", <<JavaStrLiteral(node.attr)>>), s |-> v.s]

\* generic_visit on an expression node: an error and the placeholder.
generic_visit(node, s) ==
    [e |-> JavaIdentifier("__cannot_translate_expr__"), s |-> error(s)]

visit(node, s) ==
    CASE node.t = "Name" -> visit_Name(node, s)
      [] node.t = "Constant" -> visit_Constant(node, s)
      [] node.t = "UnaryOp" -> visit_UnaryOp(node, s)
      [] node.t = "BinOp" -> visit_BinOp(node, s)
      [] node.t = "Compare" -> visit_Compare(node, s)
      [] node.t = "BoolOp" -> visit_BoolOp(node, s)
      [] node.t = "IfExp" -> visit_IfExp(node, s)
      [] node.t = "Call" -> visit_Call(node, s)
      [] node.t = "Subscript" -> visit_Subscript(node, s)
      [] node.t = "Attribute" -> visit_Attribute(node, s)
      [] OTHER -> generic_visit(node, s)

(***************************************************************************)
(* Python AST statement targets and emit_bind.  emit_bind is a generator:  *)
(* what it yields goes to the caller (self.code.extend appends each yield  *)
(* as it is produced, a list display collects them), while the visits it   *)
(* makes append to self.code.  With extend = TRUE the yields are appended  *)
(* to out in the order produced, otherwise they are collected in yields.   *)
(***************************************************************************)
Tuple(elts) == [t |-> "Tuple", elts |-> elts]

yield(r, stmt, extend) ==
    IF extend THEN [r EXCEPT !.s.out = Append(@, stmt)]
    ELSE [r EXCEPT !.yields = Append(@, stmt)]

emit_bind_Name(target, value, r, extend) ==
    LET s1 == [r.s EXCEPT !.names_added = @ \cup {target.id}]
        v == visit(target, s1)
    IN yield([r EXCEPT !.s = v.s], JavaAssignStatement(v.e, value), extend)

RECURSIVE emit_bind_elts_reversed(_, _, _, _, _)
\* An unpacking that binds the last element first.
emit_bind_elts_reversed(elts, i, temp_name, r, extend) ==
    IF i > Len(elts) THEN r
    ELSE LET elt == elts[Len(elts) + 1 - i]
         IN IF elt.t # "Name"
            THEN emit_bind_elts_reversed(elts, i + 1, temp_name,
                                         [r EXCEPT !.s = error(@)], extend)
            ELSE emit_bind_elts_reversed(elts, i + 1, temp_name,
                     emit_bind_Name(elt,
                         JavaMethodCall(JavaIdentifier("Runtime"), "nextRequireNonNull",
                                        <<JavaIdentifier(temp_name)>>),
                         r, extend),
                     extend)

RECURSIVE emit_bind_elts(_, _, _, _, _)
emit_bind_elts(elts, i, temp_name, r, extend) ==
    IF i > Len(elts) THEN r
    ELSE IF elts[i].t # "Name"
         THEN emit_bind_elts(elts, i + 1, temp_name, [r EXCEPT !.s = error(@)], extend)
         ELSE emit_bind_elts(elts, i + 1, temp_name,
                  emit_bind_Name(elts[i],
                      JavaMethodCall(JavaIdentifier("Runtime"), "nextRequireNonNull",
                                     <<JavaIdentifier(temp_name)>>),
                      r, extend),
                  extend)

emit_bind(target, value, s, extend) ==
    LET r0 == [yields |-> <<>>, s |-> s] IN
    CASE target.t = "Name" -> emit_bind_Name(target, value, r0, extend)
      [] target.t = "Attribute" ->
            LET t == make_temp(s)
                r1 == yield([r0 EXCEPT !.s = t.s],
                            JavaVariableDecl("var", t.name, value), extend)
                obj == visit(target.value, r1.s)
            IN yield([r1 EXCEPT !.s = obj.s],
                     JavaExprStatement(JavaMethodCall(obj.e, "setAttr",
                         <<JavaStrLiteral(target.attr), JavaIdentifier(t.name)>>)),
                     extend)
      [] target.t = "Subscript" ->
            LET t == make_temp(s)
                r1 == yield([r0 EXCEPT !.s = t.s],
                            JavaVariableDecl("var", t.name, value), extend)
                obj == visit(target.value, r1.s)
                idx == visit(target.slice, obj.s)
            IN yield([r1 EXCEPT !.s = idx.s],
                     JavaExprStatement(JavaMethodCall(obj.e, "setItem",
                         <<idx.e, JavaIdentifier(t.name)>>)),
                     extend)
      [] target.t \in {"Tuple", "List"} ->
            LET t == make_temp(s)
                r1 == yield([r0 EXCEPT !.s = t.s],
                            JavaVariableDecl("var", t.name,
                                             JavaMethodCall(value, "iter", <<>>)),
                            extend)
                r2 == emit_bind_elts(target.elts, 1, t.name, r1, extend)
            IN yield(r2,
                     JavaExprStatement(JavaMethodCall(JavaIdentifier("Runtime"),
                         "nextRequireNull", <<JavaIdentifier(t.name)>>)),
                     extend)
      [] OTHER -> [r0 EXCEPT !.s = error(@)]

(***************************************************************************)
(* The visitor as a state machine.                                         *)
(***************************************************************************)
global_code == heap[0]

Range(f) == {f[i] : i \in DOMAIN f}

\* ord(c) of the characters of the strings the inputs are drawn from; the
\* character U+D800 (a surrogate) is written Surrogate, U+00E9 is written Eacute.
Surrogate == "\\ud800"
Eacute == "\\u00e9"
ord ==
    [s \in {""} |-> <<>>]
    @@ ("a" :> <<97>>) @@ ("b" :> <<98>>) @@ ("c" :> <<99>>) @@ ("d" :> <<100>>)
    @@ ("f" :> <<102>>) @@ ("g" :> <<103>>) @@ ("k" :> <<107>>) @@ ("v" :> <<118>>)
    @@ ("x" :> <<120>>) @@ ("y" :> <<121>>) @@ ("len" :> <<108, 101, 110>>)
    @@ ("\n" :> <<10>>) @@ (Eacute :> <<233>>) @@ (Surrogate :> <<55296>>)

RECURSIVE seq_lt(_, _)
\* `<` of two str (by code point) or two bytes: lexicographic.
seq_lt(x, y) ==
    IF x = <<>> THEN y # <<>>
    ELSE IF y = <<>> THEN FALSE
    ELSE IF Head(x) # Head(y) THEN Head(x) < Head(y)
    ELSE seq_lt(Tail(x), Tail(y))

PyTupleValue(elts) == [ty |-> "tuple", elts |-> elts]

RECURSIVE py_lt(_, _)
\* Python's a < b for two values of one type.
py_lt(a, b) ==
    CASE a.ty = "int" -> a.i < b.i
      [] a.ty = "str" -> seq_lt(ord[a.s], ord[b.s])
      [] a.ty = "bytes" -> seq_lt(a.bs, b.bs)
      [] a.ty = "tuple" ->
            IF a.elts[1] # b.elts[1] THEN py_lt(a.elts[1], b.elts[1])
            ELSE py_lt(a.elts[2], b.elts[2])

RECURSIVE py_sorted_insert(_, _)
py_sorted_insert(ret, x) ==
    IF ret = <<>> THEN <<x>>
    ELSE IF py_lt(x, Head(ret)) THEN <<x>> \o ret
    ELSE <<Head(ret)>> \o py_sorted_insert(Tail(ret), x)

RECURSIVE py_sorted_loop(_, _, _)
py_sorted_loop(seq, i, ret) ==
    IF i > Len(seq) THEN ret
    ELSE py_sorted_loop(seq, i + 1, py_sorted_insert(ret, seq[i]))

\* A sorted() that returns the elements as iterated.
py_sorted_as_iterated(seq) == seq

\* Python's sorted(iterable): a stable ascending sort.
py_sorted(seq) == py_sorted_loop(seq, 1, <<>>)

\* The iteration of a set of str under hash order h (a sequence without repeats
\* that holds every element of the set): Python fixes no order for it.
set_iter(S, h) == SelectSeq(h, LAMBDA x : x \in S)

\* Iteration orders of the sets of str: the elements in ascending order, in
\* descending order, and in two mixed orders.
HashOrders ==
    {<<"a", "b", "c", "d", "f", "g", "k", "len", "v", "x", "y">>,
     <<"y", "x", "v", "len", "k", "g", "f", "d", "c", "b", "a">>,
     <<"x", "g", "a", "y", "len", "c", "f", "v", "b", "k", "d">>,
     <<"len", "y", "d", "f", "k", "x", "b", "g", "v", "a", "c">>}
HashOrder == <<"len", "y", "d", "f", "k", "x", "b", "g", "v", "a", "c">>

\* sorted(S) of a set of str S.
sorted_iter(S, h) ==
    LET it == set_iter(S, h)
        ret == py_sorted([i \in DOMAIN it |-> PyStrValue(it[i])])
    IN [i \in DOMAIN ret |-> ret[i].s]
sorted(S) == sorted_iter(S, HashOrder)

NoFrame == [h |-> "none"]
NoNode == [t |-> "none"]

\* What the observation keeps of the state a handler segment started in.
Pre ==
    [n_temps |-> n_temps, code |-> code, names |-> names,
     in_function |-> in_function, break_name |-> break_name,
     len |-> Len(heap[code]), depth |-> Len(stack),
     all_ints |-> all_ints, all_strings |-> all_strings, all_bytes |-> all_bytes]

\* main() inside `visitor.visit(node)` of the only unit requested, the runtime
\* built: the driver as the specifications of the visitor alone see it.
Visiting ==
    [pc |-> "visit", n_units |-> 1, unit |-> 1, errors |-> <<>>, written |-> {},
     javac |-> <<"runtime">>, status |-> None]

\* PythonjVisitor.__init__, and no statement of the module visited yet.
Constructed ==
    /\ n_errors = 0
    /\ n_temps = 0
    /\ global_names = {}
    /\ local_names = {}
    /\ names = "global_names"
    /\ explicit_globals = {}
    /\ heap = (0 :> <<JavaVariableDecl("PyObject", "expr_discard", NoValue)>>)
    /\ code = 0
    /\ n_alloc = 0
    /\ all_ints = {}
    /\ all_strings = <<>>
    /\ all_bytes = <<>>
    /\ in_function = FALSE
    /\ used_expr_discard = FALSE
    /\ break_name = None
    /\ functions = <<>>
    /\ allow_intrinsics = FALSE
    /\ stack = <<>>
    /\ last = [op |-> "__init__", node |-> NoNode, pre |-> NoFrame, frame |-> NoFrame]
    /\ obs = [fname |-> None, args |-> <<>>, assigned |-> {}, declared |-> {},
              refs |-> {}, literals |-> {}, done |-> FALSE]

Fresh == Constructed /\ main = Visiting

Init == Fresh /\ fuel = MaxStmts

\* The effects of an expression visit (and of emit_bind) on the visitor's fields,
\* without the statements appended to self.code.
Commit(s) ==
    /\ n_errors' = s.n_errors
    /\ all_ints' = s.all_ints
    /\ all_strings' = s.all_strings
    /\ all_bytes' = s.all_bytes
    /\ IF names = "global_names"
       THEN global_names' = global_names \cup s.names_added /\ UNCHANGED local_names
       ELSE local_names' = local_names \cup s.names_added /\ UNCHANGED global_names

Observe(s, assigned, declared) ==
    obs' = [obs EXCEPT !.refs = @ \cup Range(s.refs),
                       !.literals = @ \cup Range(s.literals),
                       !.assigned = @ \cup (IF in_function THEN assigned ELSE {}),
                       !.declared = @ \cup (IF in_function THEN declared ELSE {})]

\* A handler segment ran: main() stays inside visitor.visit(node).
Step(op, node, frame) ==
    /\ last' = [op |-> op, node |-> node, pre |-> Pre, frame |-> frame]
    /\ UNCHANGED main

\* self.code gets s.out and then stmts; nothing else of the block structure changes.
Emit(s, stmts) ==
    /\ heap' = [heap EXCEPT ![code] = @ \o s.out \o stmts]
    /\ n_temps' = s.n_temps
    /\ UNCHANGED <<code, n_alloc, stack>>

\* new_block entered from a list that first gets stmts: the fresh list's reference.
NewRef == n_alloc + 1

pop(stk) == SubSeq(stk, 1, Len(stk) - 1)
top(stk) == stk[Len(stk)]
without(h, r) == [k \in DOMAIN h \ {r} |-> h[k]]

Simple == UNCHANGED <<explicit_globals, in_function, used_expr_discard, break_name,
                      functions, allow_intrinsics>>

\* A visit_Expr that does not record the use of expr_discard.
visit_Expr_unrecorded(node) ==
    /\ fuel > 0
    /\ fuel' = fuel - 1
    /\ LET r == visit(node.value, Slice)
       IN /\ Commit(r.s)
          /\ Observe(r.s, {}, {})
          /\ IF r.e.j \in {"JavaMethodCall", "JavaCreateObject"}
             THEN Emit(r.s, <<JavaExprStatement(r.e)>>)
             ELSE Emit(r.s, <<JavaAssignStatement(JavaIdentifier("expr_discard"), r.e)>>)
    /\ Step("visit_Expr", node, NoFrame)
    /\ UNCHANGED <<names, explicit_globals, in_function, break_name, functions,
                   allow_intrinsics, used_expr_discard>>

visit_Expr(node) ==
    /\ fuel > 0
    /\ fuel' = fuel - 1
    /\ LET r == visit(node.value, Slice)
       IN /\ Commit(r.s)
          /\ Observe(r.s, {}, {})
          /\ IF r.e.j \in {"JavaMethodCall", "JavaCreateObject"}
             THEN /\ Emit(r.s, <<JavaExprStatement(r.e)>>)
                  /\ UNCHANGED used_expr_discard
             ELSE /\ Emit(r.s, <<JavaAssignStatement(JavaIdentifier("expr_discard"), r.e)>>)
                  /\ used_expr_discard' = TRUE
    /\ Step("visit_Expr", node, NoFrame)
    /\ UNCHANGED <<names, explicit_globals, in_function, break_name, functions,
                   allow_intrinsics>>

Expr(value) == [t |-> "Expr", value |-> value]
Assign(targets, value) == [t |-> "Assign", targets |-> targets, value |-> value]
AugAssign(target, op, value) ==
    [t |-> "AugAssign", target |-> target, op |-> op, value |-> value]
Global(ns) == [t |-> "Global", names |-> ns]
Return(value) == [t |-> "Return", value |-> value]

BoundNames(target) ==
    CASE target.t = "Name" -> {target.id}
      [] target.t \in {"Tuple", "List"} ->
            {target.elts[i].id : i \in {k \in DOMAIN target.elts : target.elts[k].t = "Name"}}
      [] OTHER -> {}

visit_Assign(node) ==
    /\ fuel > 0
    /\ fuel' = fuel - 1
    /\ LET s0 == IF Len(node.targets) # 1 THEN error(Slice) ELSE Slice
           target == node.targets[1]
           v == visit(node.value, s0)
           b == emit_bind(target, v.e, v.s, TRUE)
       IN /\ Commit(b.s)
          /\ Observe(b.s, BoundNames(target), {})
          /\ Emit(b.s, <<>>)
    /\ Step("visit_Assign", node, NoFrame)
    /\ UNCHANGED names
    /\ Simple

visit_AugAssign(node) ==
    /\ fuel > 0
    /\ fuel' = fuel - 1
    /\ LET op == visit_op(node.op) \o "InPlace"
           target == node.target
       IN CASE target.t = "Name" ->
                 LET l == visit(target, Slice)
                     g == visit(target, l.s)
                     v == visit(node.value, g.s)
                 IN /\ Commit(v.s)
                    /\ Observe(v.s, {target.id}, {})
                    /\ Emit(v.s, <<JavaAssignStatement(l.e,
                                      JavaMethodCall(g.e, op, <<v.e>>))>>)
            [] target.t = "Attribute" ->
                 LET t == make_temp(Slice)
                     o == visit(target.value, t.s)
                     s1 == code_append(o.s, JavaVariableDecl("var", t.name, o.e))
                     v == visit(node.value, s1)
                 IN /\ Commit(v.s)
                    /\ Observe(v.s, {}, {})
                    /\ Emit(v.s, <<JavaExprStatement(
                           JavaMethodCall(JavaIdentifier(t.name), "setAttr",
                             <<JavaStrLiteral(target.attr),
                               JavaMethodCall(
                                 JavaMethodCall(JavaIdentifier(t.name), "getAttr",
                                                <<JavaStrLiteral(target.attr)>>),
                                 op, <<v.e>>)>>))>>)
            [] target.t = "Subscript" ->
                 LET t0 == make_temp(Slice)
                     t1 == make_temp(t0.s)
                     o == visit(target.value, t1.s)
                     s1 == code_append(o.s, JavaVariableDecl("var", t0.name, o.e))
                     k == visit(target.slice, s1)
                     s2 == code_append(k.s, JavaVariableDecl("var", t1.name, k.e))
                     v == visit(node.value, s2)
                 IN /\ Commit(v.s)
                    /\ Observe(v.s, {}, {})
                    /\ Emit(v.s, <<JavaExprStatement(
                           JavaMethodCall(JavaIdentifier(t0.name), "setItem",
                             <<JavaIdentifier(t1.name),
                               JavaMethodCall(
                                 JavaMethodCall(JavaIdentifier(t0.name), "getItem",
                                                <<JavaIdentifier(t1.name)>>),
                                 op, <<v.e>>)>>))>>)
            [] OTHER ->
                 LET v == visit(node.value, error(Slice))
                 IN /\ Commit(v.s)
                    /\ Observe(v.s, {}, {})
                    /\ Emit(v.s, <<>>)
    /\ Step("visit_AugAssign", node, NoFrame)
    /\ UNCHANGED names
    /\ Simple

visit_Global(node) ==
    /\ fuel > 0
    /\ fuel' = fuel - 1
    /\ IF ~in_function
       THEN /\ n_errors' = n_errors + 1
            /\ UNCHANGED explicit_globals
       ELSE /\ explicit_globals' = explicit_globals \cup Range(node.names)
            /\ UNCHANGED n_errors
    /\ Observe(Slice, {}, Range(node.names))
    /\ Step("visit_Global", node, NoFrame)
    /\ UNCHANGED <<n_temps, global_names, local_names, names, heap, code, n_alloc,
                   all_ints, all_strings, all_bytes, in_function, used_expr_discard,
                   break_name, functions, allow_intrinsics, stack>>

\* visit_Return asserts self.in_function: outside a function the translator stops.
visit_Return(node) ==
    /\ fuel > 0
    /\ in_function
    /\ fuel' = fuel - 1
    /\ LET r == IF node.value.t # "none" THEN visit(node.value, Slice)
                ELSE emit_constant(PyNoneValue, Slice)
       IN /\ Commit(r.s)
          /\ Observe(r.s, {}, {})
          /\ Emit(r.s, <<JavaReturnStatement(r.e)>>)
    /\ Step("visit_Return", node, NoFrame)
    /\ UNCHANGED names
    /\ Simple

\* A visit_Break that never names a label.
visit_Break_unlabeled ==
    /\ fuel > 0
    /\ fuel' = fuel - 1
    /\ Emit(Slice, <<JavaBreakStatement(None)>>)
    /\ Step("visit_Break", [t |-> "Break"], NoFrame)
    /\ UNCHANGED <<n_errors, global_names, local_names, names, all_ints, all_strings,
                   all_bytes, obs>>
    /\ Simple

visit_Break ==
    /\ fuel > 0
    /\ fuel' = fuel - 1
    /\ Emit(Slice, <<JavaBreakStatement(break_name)>>)
    /\ Step("visit_Break", [t |-> "Break"], NoFrame)
    /\ UNCHANGED <<n_errors, global_names, local_names, names, all_ints, all_strings,
                   all_bytes, obs>>
    /\ Simple

visit_Continue ==
    /\ fuel > 0
    /\ fuel' = fuel - 1
    /\ Emit(Slice, <<JavaContinueStatement>>)
    /\ Step("visit_Continue", [t |-> "Continue"], NoFrame)
    /\ UNCHANGED <<n_errors, global_names, local_names, names, all_ints, all_strings,
                   all_bytes, obs>>
    /\ Simple

(***************************************************************************)
(* Compound statements.  `with self.new_block() as b` saves self.code in   *)
(* the frame, makes a fresh list active, and on exit makes the saved list  *)
(* active again; b is then read from the heap and the list object dropped. *)
(***************************************************************************)
If(test) == [t |-> "If", test |-> test]
While(test, has_orelse) == [t |-> "While", test |-> test, has_orelse |-> has_orelse]
For(target, iter, has_orelse) ==
    [t |-> "For", target |-> target, iter |-> iter, has_orelse |-> has_orelse]
Try(n_handlers, handler_name, has_orelse) ==
    [t |-> "Try", n_handlers |-> n_handlers, handler_name |-> handler_name,
     has_orelse |-> has_orelse]
FunctionDef(name, args) == [t |-> "FunctionDef", name |-> name, args |-> args]

Unchanged_scope == UNCHANGED <<in_function, used_expr_discard, functions,
                               allow_intrinsics, explicit_globals, names>>

\* visit_If up to the visit of node.body.
visit_If_body(node) ==
    /\ fuel > 0 /\ Len(stack) < MaxDepth
    /\ fuel' = fuel - 1
    /\ LET c == visit(node.test, Slice)
           cond == bool_value(c.e)
       IN /\ Commit(c.s)
          /\ Observe(c.s, {}, {})
          /\ n_temps' = c.s.n_temps
          /\ heap' = [heap EXCEPT ![code] = @ \o c.s.out] @@ (NewRef :> <<>>)
          /\ stack' = Append(stack, [h |-> "visit_If", phase |-> "body", node |-> node,
                                     saved_code |-> code, cond |-> cond, pre |-> Pre])
    /\ code' = NewRef
    /\ n_alloc' = NewRef
    /\ Step("visit_If_body", node, NoFrame)
    /\ UNCHANGED break_name
    /\ Unchanged_scope

\* visit_If from the end of node.body to the visit of node.orelse.
visit_If_orelse ==
    /\ stack # <<>> /\ top(stack).h = "visit_If" /\ top(stack).phase = "body"
    /\ LET fr == top(stack)
       IN /\ stack' = Append(pop(stack),
                             [fr EXCEPT !.phase = "orelse"] @@ [body |-> heap[code]])
          /\ heap' = without(heap, code) @@ (NewRef :> <<>>)
          /\ Step("visit_If_orelse", fr.node, NoFrame)
    /\ code' = NewRef
    /\ n_alloc' = NewRef
    /\ UNCHANGED <<n_errors, n_temps, global_names, local_names, all_ints, all_strings,
                   all_bytes, break_name, fuel, obs>>
    /\ Unchanged_scope

\* visit_If from the end of node.orelse.
visit_If_end ==
    /\ stack # <<>> /\ top(stack).h = "visit_If" /\ top(stack).phase = "orelse"
    /\ LET fr == top(stack)
           orelse == heap[code]
           h1 == without(heap, code)
       IN /\ stack' = pop(stack)
          /\ code' = fr.saved_code
          /\ heap' = [h1 EXCEPT ![fr.saved_code] =
                          @ \o if_statement(fr.cond, fr.body, orelse)]
          /\ Step("visit_If_end", fr.node, fr @@ [orelse |-> orelse])
    /\ UNCHANGED <<n_errors, n_temps, global_names, local_names, all_ints, all_strings,
                   all_bytes, break_name, fuel, obs, n_alloc>>
    /\ Unchanged_scope

\* visit_While up to the visit of node.body.
visit_While_body(node) ==
    /\ fuel > 0 /\ Len(stack) < MaxDepth
    /\ fuel' = fuel - 1
    /\ LET c == visit(node.test, Slice)
           cond == bool_value(c.e)
           t == make_temp(c.s)
           block_name == IF node.has_orelse THEN t.name ELSE None
           s1 == IF node.has_orelse THEN t.s ELSE c.s
       IN /\ Commit(s1)
          /\ Observe(s1, {}, {})
          /\ n_temps' = s1.n_temps
          /\ heap' = [heap EXCEPT ![code] = @ \o s1.out] @@ (NewRef :> <<>>)
          /\ break_name' = block_name
          /\ stack' = Append(stack, [h |-> "visit_While", phase |-> "body",
                                     node |-> node, saved_code |-> code, cond |-> cond,
                                     block_name |-> block_name,
                                     saved_break_name |-> break_name, pre |-> Pre])
    /\ code' = NewRef
    /\ n_alloc' = NewRef
    /\ Step("visit_While_body", node, NoFrame)
    /\ Unchanged_scope

\* visit_While from the end of node.body: to the visit of node.orelse, or to the end.
visit_While_orelse ==
    /\ stack # <<>> /\ top(stack).h = "visit_While" /\ top(stack).phase = "body"
    /\ LET fr == top(stack)
           body == heap[code]
           loop == while_statement(fr.cond, body)
           h1 == without(heap, code)
       IN /\ break_name' = fr.saved_break_name
          /\ IF fr.node.has_orelse
             THEN /\ stack' = Append(pop(stack),
                                     [fr EXCEPT !.phase = "orelse"] @@ [loop |-> loop])
                  /\ heap' = h1 @@ (NewRef :> <<>>)
                  /\ code' = NewRef
                  /\ n_alloc' = NewRef
                  /\ Step("visit_While_orelse", fr.node, NoFrame)
             ELSE /\ stack' = pop(stack)
                  /\ heap' = [h1 EXCEPT ![fr.saved_code] = @ \o loop]
                  /\ code' = fr.saved_code
                  /\ UNCHANGED n_alloc
                  /\ Step("visit_While_end", fr.node, fr @@ [loop |-> loop, orelse |-> <<>>])
    /\ UNCHANGED <<n_errors, n_temps, global_names, local_names, all_ints, all_strings,
                   all_bytes, fuel, obs>>
    /\ Unchanged_scope

\* visit_While from the end of node.orelse.
visit_While_end ==
    /\ stack # <<>> /\ top(stack).h = "visit_While" /\ top(stack).phase = "orelse"
    /\ LET fr == top(stack)
           orelse == heap[code]
           h1 == without(heap, code)
           loop == <<JavaLabeledBlock(fr.block_name, fr.loop \o orelse)>>
       IN /\ stack' = pop(stack)
          /\ code' = fr.saved_code
          /\ heap' = [h1 EXCEPT ![fr.saved_code] = @ \o loop]
          /\ Step("visit_While_end", fr.node, fr @@ [orelse |-> orelse])
    /\ UNCHANGED <<n_errors, n_temps, global_names, local_names, all_ints, all_strings,
                   all_bytes, break_name, fuel, obs, n_alloc>>
    /\ Unchanged_scope

\* visit_For up to the visit of node.body.
visit_For_body(node) ==
    /\ fuel > 0 /\ Len(stack) < MaxDepth
    /\ fuel' = fuel - 1
    /\ LET t == make_temp(Slice)
           block_name == IF node.has_orelse THEN t.name ELSE None
           t0 == make_temp(IF node.has_orelse THEN t.s ELSE Slice)
           t1 == make_temp(t0.s)
           it == visit(node.iter, t1.s)
           s1 == code_append(it.s, JavaVariableDecl("var", t0.name,
                                       JavaMethodCall(it.e, "iter", <<>>)))
       IN /\ Commit(s1)
          /\ Observe(s1, {}, {})
          /\ n_temps' = s1.n_temps
          /\ heap' = [heap EXCEPT ![code] = @ \o s1.out] @@ (NewRef :> <<>>)
          /\ break_name' = block_name
          /\ stack' = Append(stack, [h |-> "visit_For", phase |-> "body", node |-> node,
                                     saved_code |-> code, block_name |-> block_name,
                                     temp_name0 |-> t0.name, temp_name1 |-> t1.name,
                                     saved_break_name |-> break_name, pre |-> Pre])
    /\ code' = NewRef
    /\ n_alloc' = NewRef
    /\ Step("visit_For_body", node, NoFrame)
    /\ Unchanged_scope

\* visit_For from the end of node.body: the loop is built (emit_bind runs here, with
\* the saved list active again), then node.orelse is visited or the loop appended.
visit_For_orelse ==
    /\ stack # <<>> /\ top(stack).h = "visit_For" /\ top(stack).phase = "body"
    /\ LET fr == top(stack)
           body == heap[code]
           h1 == without(heap, code)
           b == emit_bind(fr.node.target, JavaIdentifier(fr.temp_name1), Slice, FALSE)
           loop == JavaForStatement("var", fr.temp_name1,
                       JavaMethodCall(JavaIdentifier(fr.temp_name0), "next", <<>>),
                       JavaBinaryOp("!=", JavaIdentifier(fr.temp_name1),
                                    JavaIdentifier("null")),
                       fr.temp_name1,
                       JavaMethodCall(JavaIdentifier(fr.temp_name0), "next", <<>>),
                       b.yields \o body)
           h2 == [h1 EXCEPT ![fr.saved_code] = @ \o b.s.out]
       IN /\ break_name' = fr.saved_break_name
          /\ Commit(b.s)
          /\ Observe(b.s, BoundNames(fr.node.target), {})
          /\ n_temps' = b.s.n_temps
          /\ IF fr.node.has_orelse
             THEN /\ stack' = Append(pop(stack),
                                     [fr EXCEPT !.phase = "orelse"] @@ [loop |-> <<loop>>])
                  /\ heap' = h2 @@ (NewRef :> <<>>)
                  /\ code' = NewRef
                  /\ n_alloc' = NewRef
                  /\ Step("visit_For_orelse", fr.node, NoFrame)
             ELSE /\ stack' = pop(stack)
                  /\ heap' = [h2 EXCEPT ![fr.saved_code] = Append(@, loop)]
                  /\ code' = fr.saved_code
                  /\ UNCHANGED n_alloc
                  /\ Step("visit_For_end", fr.node, fr @@ [loop |-> <<loop>>, orelse |-> <<>>])
    /\ UNCHANGED fuel
    /\ Unchanged_scope

\* visit_For from the end of node.orelse.
visit_For_end ==
    /\ stack # <<>> /\ top(stack).h = "visit_For" /\ top(stack).phase = "orelse"
    /\ LET fr == top(stack)
           orelse == heap[code]
           h1 == without(heap, code)
           loop == JavaLabeledBlock(fr.block_name, fr.loop \o orelse)
       IN /\ stack' = pop(stack)
          /\ code' = fr.saved_code
          /\ heap' = [h1 EXCEPT ![fr.saved_code] = Append(@, loop)]
          /\ Step("visit_For_end", fr.node, fr @@ [orelse |-> orelse])
    /\ UNCHANGED <<n_errors, n_temps, global_names, local_names, all_ints, all_strings,
                   all_bytes, break_name, fuel, obs, n_alloc>>
    /\ Unchanged_scope

\* visit_Try up to the visit of node.body.  Handlers are catch-all (`except:` or
\* `except BaseException`); more than one handler and an else clause are errors.
visit_Try_body(node) ==
    /\ fuel > 0 /\ Len(stack) < MaxDepth
    /\ fuel' = fuel - 1
    /\ n_errors' = n_errors + (IF node.n_handlers > 1 THEN 1 ELSE 0)
                            + (IF node.has_orelse THEN 1 ELSE 0)
    /\ heap' = heap @@ (NewRef :> <<>>)
    /\ stack' = Append(stack, [h |-> "visit_Try", phase |-> "body", node |-> node,
                               saved_code |-> code, pre |-> Pre])
    /\ code' = NewRef
    /\ n_alloc' = NewRef
    /\ Step("visit_Try_body", node, NoFrame)
    /\ UNCHANGED <<n_temps, global_names, local_names, all_ints, all_strings,
                   all_bytes, break_name, obs>>
    /\ Unchanged_scope

\* visit_Try from the end of node.body: into the handler's body when there is a
\* handler, else into node.finalbody.
visit_Try_handler ==
    /\ stack # <<>> /\ top(stack).h = "visit_Try" /\ top(stack).phase = "body"
    /\ LET fr == top(stack)
           try_body == heap[code]
           h1 == without(heap, code)
           t == make_temp(Slice)
           name == fr.node.handler_name
           bound == IF name # None THEN {name} ELSE {}
           first == IF name # None
                    THEN <<JavaAssignStatement(ident_expr(name),
                                JavaField(JavaIdentifier(t.name), "exc"))>>
                    ELSE <<>>
           s1 == [t.s EXCEPT !.names_added = bound,
                             !.refs = IF name # None THEN <<RefOf(name)>> ELSE <<>>]
       IN IF fr.node.n_handlers > 0
          THEN /\ Commit(s1)
               /\ Observe(s1, bound, {})
               /\ n_temps' = s1.n_temps
               /\ heap' = h1 @@ (NewRef :> first)
               /\ stack' = Append(pop(stack),
                                  [fr EXCEPT !.phase = "handler"]
                                  @@ [try_body |-> try_body, exc_type |-> "PyRaise",
                                      exc_name |-> t.name])
               /\ Step("visit_Try_handler", fr.node, NoFrame)
          ELSE /\ heap' = h1 @@ (NewRef :> <<>>)
               /\ stack' = Append(pop(stack),
                                  [fr EXCEPT !.phase = "finalbody"]
                                  @@ [try_body |-> try_body, exc_type |-> None,
                                      exc_name |-> None, catch_body |-> <<>>])
               /\ Step("visit_Try_finalbody", fr.node, NoFrame)
               /\ UNCHANGED <<n_errors, n_temps, global_names, local_names, all_ints,
                              all_strings, all_bytes, obs>>
    /\ code' = NewRef
    /\ n_alloc' = NewRef
    /\ UNCHANGED <<break_name, fuel>>
    /\ Unchanged_scope

\* visit_Try from the end of the handler's body to the visit of node.finalbody.
visit_Try_finalbody ==
    /\ stack # <<>> /\ top(stack).h = "visit_Try" /\ top(stack).phase = "handler"
    /\ LET fr == top(stack)
       IN /\ stack' = Append(pop(stack),
                             [fr EXCEPT !.phase = "finalbody"]
                             @@ [catch_body |-> heap[code]])
          /\ heap' = without(heap, code) @@ (NewRef :> <<>>)
          /\ Step("visit_Try_finalbody", fr.node, NoFrame)
    /\ code' = NewRef
    /\ n_alloc' = NewRef
    /\ UNCHANGED <<n_errors, n_temps, global_names, local_names, all_ints, all_strings,
                   all_bytes, break_name, fuel, obs>>
    /\ Unchanged_scope

\* visit_Try from the end of node.finalbody.
visit_Try_end ==
    /\ stack # <<>> /\ top(stack).h = "visit_Try" /\ top(stack).phase = "finalbody"
    /\ LET fr == top(stack)
           finally_body == heap[code]
           h1 == without(heap, code)
           stmt == JavaTryStatement(fr.try_body, fr.exc_type, fr.exc_name,
                                    fr.catch_body, finally_body)
       IN /\ stack' = pop(stack)
          /\ code' = fr.saved_code
          /\ heap' = [h1 EXCEPT ![fr.saved_code] = Append(@, stmt)]
          /\ Step("visit_Try_end", fr.node, fr @@ [finally_body |-> finally_body])
    /\ UNCHANGED <<n_errors, n_temps, global_names, local_names, all_ints, all_strings,
                   all_bytes, break_name, fuel, obs, n_alloc>>
    /\ Unchanged_scope

(***************************************************************************)
(* Function definitions.                                                   *)
(***************************************************************************)
\* A call body that binds the parameters before it checks the arguments.
func_code_of_bind_first(node, body) ==
    [i \in 1..Len(node.args) |->
        JavaVariableDecl("PyObject", "pylocal_" \o node.args[i],
            JavaArrayAccess(JavaIdentifier("args"), JavaIntLiteral(i - 1, "")))]
    \o body
    \o <<JavaReturnStatement(emit_constant(PyNoneValue, Slice).e)>>

\* The statements of the emitted `call` method, before block_simplify.
func_code_of(node, body) ==
    LET n_args == Len(node.args) IN
    if_statement(
        JavaBinaryOp("&&",
            JavaBinaryOp("!=", JavaIdentifier("kwargs"), JavaIdentifier("null")),
            bool_value(JavaIdentifier("kwargs"))),
        <<JavaThrowStatement(JavaCreateObject("IllegalArgumentException",
            <<JavaStrLiteral(node.name \o "() does not accept kwargs")>>))>>,
        <<>>)
    \o if_statement(
        JavaBinaryOp("!=", JavaField(JavaIdentifier("args"), "length"),
                     JavaIntLiteral(n_args, "")),
        <<JavaThrowStatement(JavaMethodCall(JavaIdentifier("Runtime"),
            "raiseUserExactArgs",
            <<JavaIdentifier("args"), JavaIntLiteral(n_args, ""),
              JavaStrLiteral(node.name)>>
            \o [i \in 1..n_args |-> JavaStrLiteral(node.args[i])]))>>,
        <<>>)
    \o [i \in 1..n_args |->
            JavaVariableDecl("PyObject", "pylocal_" \o node.args[i],
                JavaArrayAccess(JavaIdentifier("args"), JavaIntLiteral(i - 1, "")))]
    \o (IF used_expr_discard
        THEN <<JavaVariableDecl("PyObject", "expr_discard", NoValue)>>
        ELSE <<>>)
    \o [i \in 1..Len(sorted(local_names)) |->
            JavaVariableDecl("PyObject", "pylocal_" \o sorted(local_names)[i], NoValue)]
    \o body
    \o <<JavaReturnStatement(emit_constant(PyNoneValue, Slice).e)>>

\* visit_FunctionDef up to the visit of node.body; a nested def is an error and
\* returns at once.
visit_FunctionDef_body(node) ==
    /\ fuel > 0 /\ Len(stack) < MaxDepth
    /\ fuel' = fuel - 1
    /\ IF in_function
       THEN /\ n_errors' = n_errors + 1
            /\ Step("visit_FunctionDef_end", node,
                    [h |-> "visit_FunctionDef", node |-> node, pre |-> Pre,
                     nested |-> TRUE])
            /\ UNCHANGED <<n_temps, global_names, local_names, names, explicit_globals,
                           heap, code, n_alloc, in_function, used_expr_discard, stack,
                           obs>>
       ELSE /\ global_names' = global_names \cup {node.name}
            /\ heap' = [heap EXCEPT ![0] =
                           Append(@, JavaAssignStatement(
                                         JavaIdentifier("pyglobal_" \o node.name),
                                         JavaCreateObject("pyfunc_" \o node.name, <<>>)))]
                       @@ (NewRef :> <<>>)
            /\ in_function' = TRUE
            /\ used_expr_discard' = FALSE
            /\ names' = "local_names"
            /\ local_names' = {}
            /\ explicit_globals' = {}
            /\ n_temps' = 0
            /\ code' = NewRef
            /\ n_alloc' = NewRef
            /\ stack' = Append(stack, [h |-> "visit_FunctionDef", phase |-> "body",
                                       node |-> node, saved_code |-> code,
                                       saved_temps |-> n_temps, pre |-> Pre,
                                       nested |-> FALSE])
            /\ obs' = [fname |-> node.name, args |-> node.args, assigned |-> {},
                       declared |-> {}, refs |-> {}, literals |-> obs.literals,
                       done |-> FALSE]
            /\ Step("visit_FunctionDef_body", node, NoFrame)
            /\ UNCHANGED n_errors
    /\ UNCHANGED <<all_ints, all_strings, all_bytes, break_name, functions,
                   allow_intrinsics>>

\* A visit_FunctionDef that leaves the function's name set active on return.
names_after_def_stale == names

\* `self.names = self.global_names` on return from visit_FunctionDef.
names_after_def == "global_names"

\* visit_FunctionDef from the end of node.body.
visit_FunctionDef_end ==
    /\ stack # <<>> /\ top(stack).h = "visit_FunctionDef"
    /\ LET fr == top(stack)
           body == heap[code]
           func_code == block_simplify(func_code_of(fr.node, body))
       IN /\ stack' = pop(stack)
          /\ code' = fr.saved_code
          /\ heap' = without(heap, code)
          /\ n_temps' = fr.saved_temps
          /\ functions' = (fr.node.name :> func_code) @@ functions
          /\ Step("visit_FunctionDef_end", fr.node, fr @@ [body |-> body])
    /\ in_function' = FALSE
    /\ names' = names_after_def
    /\ obs' = [obs EXCEPT !.done = TRUE]
    /\ UNCHANGED <<n_errors, global_names, local_names, explicit_globals, n_alloc,
                   all_ints, all_strings, all_bytes, used_expr_discard, break_name,
                   allow_intrinsics, fuel>>

(***************************************************************************)
(* Scope resolution: module-level statements, function definitions and     *)
(* the statements that read, bind and declare names.                       *)
(***************************************************************************)
ScopeNames == {"x", "len"}
ScopeArgs == {<<>>, <<"x">>}
ScopeGlobals == {<<"x">>, <<"x", "len">>}

\* The statements of the modules tried, by class.
ScopeExprs == {Expr(Name(n)) : n \in ScopeNames}
ScopeAssigns == {Assign(<<Name(n)>>, Constant(PyNoneValue)) : n \in ScopeNames}
ScopeGlobalStmts == {Global(ns) : ns \in ScopeGlobals}
ScopeDefs == {FunctionDef("f", a) : a \in ScopeArgs}
ReturnNone == Return(NoNode)
IfX == If(Name("x"))

Next ==
    \/ \E node \in ScopeExprs : visit_Expr(node)
    \/ \E node \in ScopeAssigns : visit_Assign(node)
    \/ \E node \in ScopeGlobalStmts : visit_Global(node)
    \/ visit_Return(ReturnNone)
    \/ visit_If_body(IfX)
    \/ visit_If_orelse
    \/ visit_If_end
    \/ \E node \in ScopeDefs : visit_FunctionDef_body(node)
    \/ visit_FunctionDef_end

Spec == Init /\ [][Next]_vars

(***************************************************************************)
(* Claims about scope resolution, checked under Spec.                      *)
(***************************************************************************)
pylocal(name) == JavaIdentifier("pylocal_" \o name)
pyglobal(name) == JavaIdentifier("pyglobal_" \o name)
Runtime_pyglobal(name) == JavaField(JavaIdentifier("Runtime"), "pyglobal_" \o name)

\* C1: inside a function body, every reference to or assignment of a name that is
\* assigned somewhere in that body, is not a built-in and is not declared global
\* there, resolves to pylocal_<name>, also when the name is in the module-scope
\* name set.
C1_AssignedNameIsLocal ==
    \A r \in obs.refs :
        (r.infn /\ r.name \in obs.assigned /\ r.name \notin BUILTINS
                /\ r.name \notin obs.declared)
        => r.expr = pylocal(r.name)

\* C2: once a function body is lowered, every reference in it to a name that is
\* not a built-in, is never assigned in the body and is not a formal parameter
\* resolved to pyglobal_<name>.
C2_UnassignedNameIsGlobal ==
    obs.done =>
        \A r \in obs.refs :
            (r.infn /\ r.name \notin BUILTINS /\ r.name \notin obs.assigned
                    /\ r.name \notin Range(obs.args))
            => r.expr = pyglobal(r.name)

\* C3: a built-in name resolves to Runtime.pyglobal_<name> in every visitor state;
\* otherwise, after `global n` was lowered in the current function, n resolves to
\* pyglobal_n; and the explicit-global set of a function body holds only the
\* names declared global in that body, so that a name not declared in it (and not
\* in the module scope) resolves to pylocal_<name> whatever earlier functions
\* declared.
C3_ResolutionPriority ==
    /\ \A r \in obs.refs :
          /\ r.name \in BUILTINS => r.expr = Runtime_pyglobal(r.name)
          /\ (r.name \notin BUILTINS /\ r.infn /\ r.declared) => r.expr = pyglobal(r.name)
          /\ (r.name \notin BUILTINS /\ r.infn /\ ~r.declared /\ ~r.inglobals)
             => r.expr = pylocal(r.name)
    /\ in_function => explicit_globals = obs.declared

\* C3's case: in one function body, after `global x, len`, a reference to x (not in
\* the module scope) and one to the built-in len.
C3_Witness ==
    /\ \E r \in obs.refs :
          r.name = "x" /\ r.infn /\ r.declared /\ ~r.inglobals /\ r.expr = pyglobal("x")
    /\ \E r \in obs.refs :
          r.name = "len" /\ r.infn /\ r.declared /\ r.expr = Runtime_pyglobal("len")

InFunctionFrame == \E i \in DOMAIN stack : stack[i].h = "visit_FunctionDef"

\* The parts of C4 that hold of every state: inside a function the function's
\* name set and a list opened in the function are active, outside the module's
\* name set is, and with no handler open the list is global_code.
C4_Lockstep ==
    /\ (names = "global_names") <=> ~in_function
    /\ in_function <=> InFunctionFrame
    /\ in_function => code # 0
    /\ stack = <<>> => code = 0

\* C4 as stated: the pair is swapped in lockstep, and after visit_FunctionDef
\* returns, code and names are the objects active before it was entered and
\* in_function is false.
C4_AsStated ==
    /\ C4_Lockstep
    /\ last.op = "visit_FunctionDef_end" =>
          /\ code = last.frame.pre.code
          /\ names = last.frame.pre.names
          /\ ~in_function

\* C4 amended: that holds of a visit_FunctionDef entered outside a function; a
\* nested def returns with code, names and in_function (true) as they were.
C4_LockstepSwap ==
    /\ C4_Lockstep
    /\ last.op = "visit_FunctionDef_end" =>
          /\ code = last.frame.pre.code
          /\ names = last.frame.pre.names
          /\ in_function = last.frame.pre.in_function
          /\ last.frame.nested = last.frame.pre.in_function

\* C4's case: a def inside a module-level `if` has returned, and the `if` body's
\* list (not global_code) is active again with the module's name set.
C4_Witness ==
    /\ last.op = "visit_FunctionDef_end"
    /\ ~last.frame.nested
    /\ code # 0
    /\ names = "global_names"
    /\ last.frame.node.name \in DOMAIN functions

(***************************************************************************)
(* The constant pool: a module of expression statements and assignments    *)
(* whose values are literals.                                              *)
(***************************************************************************)
PoolValues ==
    {PyNoneValue, PyBoolValue(TRUE), PyBoolValue(FALSE), PyFloatValue,
     PyIntValue(0), PyIntValue(1), PyIntValue(2), PyIntValue(7),
     PyStrValue(""), PyStrValue("a"), PyStrValue("b"),
     PyBytesValue(<<>>), PyBytesValue(<<97>>)}

InitPool == Fresh /\ fuel = MaxLiterals

PoolExprs == {Expr(Constant(v)) : v \in PoolValues}
PoolAssigns == {Assign(<<Name("x")>>, Constant(v)) : v \in PoolValues}

NextPool ==
    \/ \E node \in PoolExprs : visit_Expr(node)
    \/ \E node \in PoolAssigns : visit_Assign(node)

SpecPool == InitPool /\ [][NextPool]_vars

LoweredInts == {v.i : v \in {w \in obs.literals : w.ty = "int"}}
LoweredStrs == {v.s : v \in {w \in obs.literals : w.ty = "str"}}
LoweredBytes == {v.bs : v \in {w \in obs.literals : w.ty = "bytes"}}

Dense(pool) == {pool[k] : k \in DOMAIN pool} = 0 .. (Cardinality(DOMAIN pool) - 1)
Keeps(old, new) == \A k \in DOMAIN old : k \in DOMAIN new /\ new[k] = old[k]
PoolIs(p) == all_ints = p.all_ints /\ all_strings = p.all_strings /\ all_bytes = p.all_bytes

LastLiteral == last.op \in {"visit_Expr", "visit_Assign"} /\ last.node.value.t = "Constant"
\* The expression the last literal was lowered to, read from the statement emitted.
LastLowered == heap[code][Len(heap[code])].rhs

\* C5: the pool holds one entry per distinct lowered non-empty string, one per
\* distinct lowered bytes value and one per distinct lowered integer other than 0
\* and 1, and nothing else (so never 0, 1, a boolean, None or the empty string);
\* string and bytes indices are dense from 0; lowering a literal keeps every index
\* assigned before; lowering a pooled value leaves the pool unchanged and gives
\* the identifier it had; lowering a value that is never pooled leaves the pool
\* unchanged and gives a singleton field.
C5_ConstantPool ==
    /\ all_ints = LoweredInts \ {0, 1}
    /\ DOMAIN all_strings = LoweredStrs \ {""}
    /\ DOMAIN all_bytes = LoweredBytes
    /\ Dense(all_strings) /\ Dense(all_bytes)
    /\ LastLiteral =>
          LET v == last.node.value.value
              p == last.pre
          IN /\ p.all_ints \subseteq all_ints
             /\ Keeps(p.all_strings, all_strings)
             /\ Keeps(p.all_bytes, all_bytes)
             /\ (v.ty = "int" /\ v.i \in p.all_ints)
                => PoolIs(p) /\ LastLowered = JavaIdentifier(int_name(v.i))
             /\ (v.ty = "str" /\ v.s \in DOMAIN p.all_strings)
                => /\ PoolIs(p)
                   /\ LastLowered =
                        JavaIdentifier("str_singleton_" \o ToString(p.all_strings[v.s]))
             /\ (v.ty = "bytes" /\ v.bs \in DOMAIN p.all_bytes)
                => /\ PoolIs(p)
                   /\ LastLowered =
                        JavaIdentifier("bytes_singleton_" \o ToString(p.all_bytes[v.bs]))
             /\ (\/ v.ty \in {"NoneType", "bool"}
                 \/ v.ty = "int" /\ v.i \in {0, 1}
                 \/ v.ty = "str" /\ v.s = "")
                => PoolIs(p) /\ LastLowered.j = "JavaField"

\* C5's case: with two strings pooled, the first of them was lowered again.
C5_Witness ==
    /\ LastLiteral
    /\ last.node.value.value.ty = "str"
    /\ last.node.value.value.s \in DOMAIN last.pre.all_strings
    /\ Cardinality(DOMAIN all_strings) = 2
    /\ all_strings[last.node.value.value.s] = 0
    /\ LastLowered = JavaIdentifier("str_singleton_0")

(***************************************************************************)
(* Control flow: a module of plain statements, if, while, for, try and one *)
(* level of def; break and continue only inside a loop body of the same    *)
(* scope, return only inside a function, as Python's compiler requires.    *)
(***************************************************************************)
IsLoopFrame(fr) == fr.h \in {"visit_While", "visit_For"}

\* The indices of the frames of the loops whose body holds the current statement,
\* within the current function or module scope.
ScopeBase ==
    LET F == {i \in DOMAIN stack : stack[i].h = "visit_FunctionDef"}
    IN IF F = {} THEN 0 ELSE CHOOSE i \in F : \A k \in F : k <= i
EnclosingLoops ==
    {i \in DOMAIN stack : i > ScopeBase /\ IsLoopFrame(stack[i]) /\ stack[i].phase = "body"}
InLoop == EnclosingLoops # {}

FlowTests == {Name("x"), Constant(PyBoolValue(TRUE)), Constant(PyBoolValue(FALSE))}

InitFlow == Fresh /\ fuel = MaxFlowStmts

ExprX == Expr(Name("x"))
FlowIfs == {If(c) : c \in FlowTests}
WhileX == While(Name("x"), FALSE)
ForElse == For(Name("x"), Name("y"), TRUE)
TryExcept == Try(1, None, FALSE)
DefF == FunctionDef("f", <<>>)

NextFlow ==
    \/ visit_Expr(ExprX)
    \/ InLoop /\ visit_Break
    \/ InLoop /\ visit_Continue
    \/ visit_Return(ReturnNone)
    \/ \E node \in FlowIfs : visit_If_body(node)
    \/ visit_If_orelse
    \/ visit_If_end
    \/ visit_While_body(WhileX)
    \/ visit_While_orelse
    \/ visit_For_body(ForElse)
    \/ visit_For_orelse
    \/ visit_For_end
    \/ visit_Try_body(TryExcept)
    \/ visit_Try_handler
    \/ visit_Try_finalbody
    \/ visit_Try_end
    \/ visit_FunctionDef_body(DefF)
    \/ visit_FunctionDef_end

SpecFlow == InitFlow /\ [][NextFlow]_vars

LastStmt == heap[code][Len(heap[code])]

\* The blocks directly inside a statement.
Blocks(s) ==
    CASE s.j = "JavaIfStatement" -> {s.body, s.orelse}
      [] s.j \in {"JavaWhileStatement", "JavaForStatement", "JavaLabeledBlock"} -> {s.body}
      [] s.j = "JavaTryStatement" -> {s.try_body, s.catch_body, s.finally_body}
      [] OTHER -> {}

RECURSIVE NoStatementAfterEnd(_)
NoStatementAfterEnd(block) ==
    \A i \in DOMAIN block :
        /\ i < Len(block) => ~ends_control_flow(block[i])
        /\ \A b \in Blocks(block[i]) : NoStatementAfterEnd(b)

InitLoop == Fresh /\ fuel = MaxLoopStmts

LoopWhiles ==
    {While(Name("x"), e) : e \in BOOLEAN} \cup {While(Constant(PyBoolValue(FALSE)), TRUE)}
LoopFors == {For(Name("x"), Name("y"), e) : e \in BOOLEAN}

NextLoop ==
    \/ visit_Expr(ExprX)
    \/ InLoop /\ visit_Break
    \/ \E node \in LoopWhiles : visit_While_body(node)
    \/ visit_While_orelse
    \/ visit_While_end
    \/ \E node \in LoopFors : visit_For_body(node)
    \/ visit_For_orelse
    \/ visit_For_end

SpecLoop == InitLoop /\ [][NextLoop]_vars

Max(S) == CHOOSE i \in S : \A k \in S : k <= i
\* The loop a `break` at the current position belongs to.
InnermostLoop == stack[Max(EnclosingLoops)]
LabelOf(fr) == IF fr.node.has_orelse THEN fr.block_name ELSE None

LoopEnded == last.op \in {"visit_While_end", "visit_For_end"}
IsLoopStmt(s) == s.j \in {"JavaWhileStatement", "JavaForStatement"}

\* The parts of C7 on break: a break in the body of a loop with else names that
\* loop's label, one in the body of a loop without else names none (a break in
\* an else clause is in the body of the enclosing loop); the label of a loop with
\* else differs from those of the loops around it; a loop once lowered leaves
\* break_name as it found it.
C7_Breaks ==
    /\ (last.op = "visit_Break" /\ InLoop)
       => LastStmt = JavaBreakStatement(LabelOf(InnermostLoop))
    /\ \A i \in DOMAIN stack :
          (IsLoopFrame(stack[i]) /\ stack[i].node.has_orelse)
          => /\ stack[i].block_name # None
             /\ \A k \in 1 .. (i - 1) :
                   IsLoopFrame(stack[k]) => stack[k].block_name # stack[i].block_name
    /\ LoopEnded => break_name = last.frame.pre.break_name
    /\ (LoopEnded /\ ~last.node.has_orelse /\ Len(heap[code]) > last.frame.pre.len)
       => IsLoopStmt(LastStmt)

\* C7 as stated: for a loop with else, the loop and then the else body stand in
\* one labeled block carrying the loop's label.
C7_AsStated ==
    /\ C7_Breaks
    /\ (LoopEnded /\ last.node.has_orelse)
       => /\ LastStmt.j = "JavaLabeledBlock"
          /\ LastStmt.name = last.frame.block_name
          /\ Len(LastStmt.body) >= 1
          /\ IsLoopStmt(LastStmt.body[1])
          /\ Tail(LastStmt.body) = block_simplify(last.frame.orelse)

WhileFalse(node) == node.t = "While" /\ node.test = Constant(PyBoolValue(FALSE))

\* C7 amended: the labeled block holds the loop and then the else body, except
\* that a `while False` is folded away and the block holds the else body alone.
C7_BreakLabels ==
    /\ C7_Breaks
    /\ (LoopEnded /\ last.node.has_orelse)
       => /\ LastStmt.j = "JavaLabeledBlock"
          /\ LastStmt.name = last.frame.block_name
          /\ IF WhileFalse(last.node)
             THEN LastStmt.body = block_simplify(last.frame.orelse)
             ELSE /\ Len(LastStmt.body) >= 1
                  /\ IsLoopStmt(LastStmt.body[1])
                  /\ Tail(LastStmt.body) = block_simplify(last.frame.orelse)

\* C7's case: inside an outer loop with else, an inner loop with else has been
\* lowered whose else clause holds a break, and that break names the outer label.
C7_Witness ==
    /\ LoopEnded
    /\ last.node.has_orelse
    /\ InLoop
    /\ InnermostLoop.node.has_orelse
    /\ last.frame.orelse # <<>>
    /\ last.frame.orelse[Len(last.frame.orelse)]
         = JavaBreakStatement(InnermostLoop.block_name)
    /\ last.frame.block_name # InnermostLoop.block_name
    /\ break_name = InnermostLoop.block_name

(***************************************************************************)
(* Chained comparisons: expression statements `a op1 c1 op2 c2 ...` with   *)
(* up to MaxCompares operators.                                            *)
(***************************************************************************)
\* The operators tried at a position: a method call or `==`, a method call or a
\* negated method call.
CompareOps(i) == IF i % 2 = 1 THEN {"Lt", "Is"} ELSE {"Lt", "NotIn"}
OpsOfLength(n) == {ops \in [1..n -> {"Lt", "Is", "NotIn"}] : \A i \in 1..n : ops[i] \in CompareOps(i)}
\* The comparand at a position: f(), b, c, f(), ...
Comparand(i) ==
    CASE i % 3 = 1 -> Call(Name("f"), <<>>)
      [] i % 3 = 2 -> Name("b")
      [] OTHER -> Name("c")
Compares ==
    UNION {{Compare(Name("a"), ops, [i \in 1..n |-> Comparand(i)]) :
               ops \in OpsOfLength(n)} : n \in 1..MaxCompares}

InitLower == Fresh /\ fuel = MaxLowerStmts

CompareExprs == {Expr(c) : c \in Compares}

NextCompare == \E node \in CompareExprs : visit_Expr(node)

SpecCompare == InitLower /\ [][NextCompare]_vars

\* The lowering of an operand that appends no statement.
Lowered(node) == visit(node, Slice).e
TempId(i) == JavaIdentifier(temp_name_of(i))

RECURSIVE Terms(_)
\* The operands of a left-nested chain of `&&`.
Terms(e) ==
    IF e.j = "JavaBinaryOp" /\ e.op = "&&" THEN Append(Terms(e.lhs), e.rhs) ELSE <<e>>
Unnegated(term) == IF term.j = "JavaUnaryOp" THEN term.operand ELSE term
TermLhs(term) ==
    LET u == Unnegated(term) IN IF u.j = "JavaBinaryOp" THEN u.lhs ELSE u.obj
TermRhs(term) ==
    LET u == Unnegated(term) IN IF u.j = "JavaBinaryOp" THEN u.rhs ELSE u.args[1]

RECURSIVE Count(_, _)
RECURSIVE CountAll(_, _, _)
\* The number of occurrences of the expression x in the expression e.
Count(e, x) ==
    IF e = x THEN 1
    ELSE CASE e.j = "JavaField" -> Count(e.obj, x)
           [] e.j = "JavaArrayAccess" -> Count(e.obj, x) + Count(e.index, x)
           [] e.j = "JavaUnaryOp" -> Count(e.operand, x)
           [] e.j \in {"JavaBinaryOp", "JavaAssignExpr"} -> Count(e.lhs, x) + Count(e.rhs, x)
           [] e.j = "JavaCondOp" -> Count(e.cond, x) + Count(e.true, x) + Count(e.false, x)
           [] e.j = "JavaCreateObject" -> CountAll(e.args, 1, x)
           [] e.j = "JavaCreateArray" -> CountAll(e.elts, 1, x)
           [] e.j = "JavaMethodCall" -> Count(e.obj, x) + CountAll(e.args, 1, x)
           [] OTHER -> 0
CountAll(es, i, x) ==
    IF i > Len(es) THEN 0 ELSE Count(es[i], x) + CountAll(es, i + 1, x)

\* The statements the last handler appended to self.code.
Appended == SubSeq(heap[code], last.pre.len + 1, Len(heap[code]))

LastCompare ==
    /\ last.op = "visit_Expr"
    /\ last.node.value.t = "Compare"
    /\ Len(last.node.value.ops) >= 2

(***************************************************************************)
(* Execution of a lowered expression, as Java evaluates it: operands left  *)
(* to right, `&&` and `?:` evaluating only the operand chosen.  The state  *)
(* is the values of the temps (store), the operands evaluated so far       *)
(* (trace) and the number of comparisons made (k); the outcomes of the     *)
(* comparisons and the truth of the values are given by the oracle o.      *)
(***************************************************************************)
Unset == [j |-> "unset"]
Temps == {temp_name_of(i) : i \in 0 .. n_temps}
Start == [store |-> <<>>, trace |-> <<>>, k |-> 0]

\* The methods of the runtime an augmented assignment is lowered to.
RuntimeMethods == {"getItem", "setItem", "getAttr", "setAttr", "addInPlace", "subInPlace"}

RECURSIVE JavaEval(_, _, _)
RECURSIVE JavaEvalAll(_, _, _, _, _)
JavaEvalAll(es, i, vs, st, o) ==
    IF i > Len(es) THEN [vs |-> vs, st |-> st]
    ELSE LET r == JavaEval(es[i], st, o)
         IN JavaEvalAll(es, i + 1, Append(vs, r.v), r.st, o)

JavaEval(e, st, o) ==
    IF e.j = "JavaIdentifier" /\ e.name \in Temps
    THEN [v |-> IF e.name \in DOMAIN st.store THEN st.store[e.name] ELSE Unset, st |-> st]
    ELSE IF e.j = "JavaAssignExpr"
    THEN LET r == JavaEval(e.rhs, st, o)
         IN [v |-> r.v, st |-> [r.st EXCEPT !.store = (e.lhs.name :> r.v) @@ @]]
    ELSE IF e.j = "JavaCondOp"
    THEN LET c == JavaEval(e.cond, st, o)
         IN IF c.v THEN JavaEval(e.true, c.st, o) ELSE JavaEval(e.false, c.st, o)
    ELSE IF e.j = "JavaBinaryOp" /\ e.op = "&&"
    THEN LET l == JavaEval(e.lhs, st, o)
         IN IF l.v THEN JavaEval(e.rhs, l.st, o) ELSE [v |-> FALSE, st |-> l.st]
    ELSE IF e.j = "JavaBinaryOp"
    THEN LET l == JavaEval(e.lhs, st, o)
             r == JavaEval(e.rhs, l.st, o)
         IN [v |-> o.cmp[r.st.k + 1], st |-> [r.st EXCEPT !.k = @ + 1]]
    ELSE IF e.j = "JavaUnaryOp"
    THEN LET r == JavaEval(e.operand, st, o) IN [v |-> ~r.v, st |-> r.st]
    ELSE IF e.j = "JavaMethodCall" /\ e.method = "boolValue"
    THEN LET r == JavaEval(e.obj, st, o) IN [v |-> o.truth[r.v], st |-> r.st]
    ELSE IF e.j = "JavaMethodCall" /\ e.method = "create"
    THEN JavaEval(e.args[1], st, o)
    ELSE IF e.j = "JavaMethodCall" /\ e.method \in {"lt", "in"}
    THEN LET l == JavaEval(e.obj, st, o)
             r == JavaEval(e.args[1], l.st, o)
         IN [v |-> o.cmp[r.st.k + 1], st |-> [r.st EXCEPT !.k = @ + 1]]
    ELSE IF e.j = "JavaMethodCall" /\ e.method \in RuntimeMethods
    THEN LET obj == JavaEval(e.obj, st, o)
             args == JavaEvalAll(e.args, 1, <<>>, obj.st, o)
         IN [v |-> [j |-> "result", method |-> e.method, obj |-> obj.v, args |-> args.vs],
             st |-> args.st]
    ELSE IF e.j \in {"JavaStrLiteral", "JavaIntLiteral"}
    THEN [v |-> e, st |-> st]
    ELSE [v |-> e, st |-> [st EXCEPT !.trace = Append(@, e)]]

RECURSIVE PyCompare(_, _, _, _)
\* Python's evaluation of a comparison chain from its i-th operator on: the value
\* and the operands evaluated.
PyCompare(node, i, trace, o) ==
    LET evaluated == Append(trace, Lowered(node.comparators[i]))
        outcome == IF node.ops[i] = "NotIn" THEN ~o.cmp[i] ELSE o.cmp[i]
    IN IF outcome /\ i < Len(node.ops)
       THEN PyCompare(node, i + 1, evaluated, o)
       ELSE [v |-> outcome, trace |-> evaluated]

Multiplicity(es, x) == Cardinality({i \in DOMAIN es : es[i] = x})

\* C8: a chain of n >= 2 comparisons lowers to PyBool.create of n terms joined
\* left to right by `&&`; term i < n has as right operand the assignment of
\* comparand i to a temp that is new and declared just before the statement, and
\* term i + 1 has that temp as left operand; the last comparand is not cached; a
\* comparand's expression occurs in the result as often as in the source; and
\* for every outcome of the comparisons the lowered expression evaluates the
\* operands Python evaluates, in the same order, to the same value.
C8_ChainedCompare ==
    LastCompare =>
        LET node == last.node.value
            n == Len(node.ops)
            p == last.pre.n_temps
            e == LastStmt.call
            terms == Terms(e.args[1])
            operands == <<node.left>> \o node.comparators
        IN /\ e.obj = JavaIdentifier("PyBool") /\ e.method = "create"
           /\ Len(terms) = n
           /\ TermLhs(terms[1]) = Lowered(node.left)
           /\ \A i \in 1 .. (n - 1) :
                 /\ TermRhs(terms[i]) =
                       JavaAssignExpr(TempId(p + i - 1), Lowered(node.comparators[i]))
                 /\ TermLhs(terms[i + 1]) = TempId(p + i - 1)
           /\ TermRhs(terms[n]) = Lowered(node.comparators[n])
           /\ n_temps = p + n - 1
           /\ Appended = [i \in 1 .. (n - 1) |->
                             JavaVariableDecl("PyObject", temp_name_of(p + i - 1), NoValue)]
                         \o <<JavaExprStatement(e)>>
           /\ \A i \in DOMAIN operands :
                 Count(e, Lowered(operands[i])) = Multiplicity(operands, operands[i])
           /\ \A cmp \in [1..n -> BOOLEAN] :
                 LET o == [cmp |-> cmp, truth |-> <<>>]
                     java == JavaEval(e, Start, o)
                     py == PyCompare(node, 1, <<Lowered(node.left)>>, o)
                 IN java.v = py.v /\ java.st.trace = py.trace

\* C8's case: `a op f() op b op c` lowered as the second statement of a module:
\* two temps after those of the first, and f() evaluated once although the first
\* test fails.
C8_Witness ==
    /\ LastCompare
    /\ Len(last.node.value.ops) = 3
    /\ last.pre.n_temps > 0
    /\ n_temps = last.pre.n_temps + 2
    /\ LET o == [cmp |-> [i \in 1..3 |-> FALSE], truth |-> <<>>]
           f == Lowered(Call(Name("f"), <<>>))
       IN /\ last.node.value.ops[1] = "Lt"
          /\ Multiplicity(JavaEval(LastStmt.call, Start, o).st.trace, f) = 1

(***************************************************************************)
(* Augmented assignments to a name, an attribute and a subscript.  The     *)
(* value may be the target's own receiver, and may be a comparison chain,  *)
(* whose temps are declared between the target's temps and the statement.  *)
(***************************************************************************)
AugReceivers == {Name("d"), Call(Name("f"), <<>>)}
AugIndices == {Name("k"), Constant(PyIntValue(2))}
AugValues ==
    {Name("v"), Name("d"),
     Compare(Name("a"), <<"Lt", "Lt">>, <<Name("b"), Name("c")>>)}
AugTargets ==
    {Name("x")}
    \cup {Attribute(r, "attr") : r \in AugReceivers}
    \cup {Subscript(r, k) : r \in AugReceivers, k \in AugIndices}

AugAssigns ==
    {AugAssign(target, op, v) : target \in AugTargets, op \in {"Add", "Sub"}, v \in AugValues}

NextAugAssign == \E node \in AugAssigns : visit_AugAssign(node)

SpecAugAssign == InitLower /\ [][NextAugAssign]_vars

RECURSIVE RunStmts(_, _, _, _)
\* Execution of a list of simple statements.
RunStmts(stmts, i, st, o) ==
    IF i > Len(stmts) THEN st
    ELSE LET s == stmts[i]
         IN IF s.j = "JavaVariableDecl" /\ s.value # NoValue
            THEN LET r == JavaEval(s.value, st, o)
                 IN RunStmts(stmts, i + 1,
                             [r.st EXCEPT !.store = (s.name :> r.v) @@ @], o)
            ELSE IF s.j = "JavaExprStatement"
            THEN RunStmts(stmts, i + 1, JavaEval(s.call, st, o).st, o)
            ELSE RunStmts(stmts, i + 1, st, o)

\* The lowering of an expression when n temps are in use.
LoweredFrom(node, n) == visit(node, [Slice EXCEPT !.n_temps = n])
\* The operands Python evaluates for a value of AugValues when every comparison
\* holds.
PyOperands(node) ==
    IF node.t = "Compare"
    THEN <<Lowered(node.left)>> \o [i \in DOMAIN node.comparators |->
                                       Lowered(node.comparators[i])]
    ELSE <<Lowered(node)>>
AllTrue == [cmp |-> [i \in 1..MaxCompares |-> TRUE], truth |-> <<>>]

CountStmt(s, x) ==
    IF s.j = "JavaVariableDecl" THEN (IF s.value = NoValue THEN 0 ELSE Count(s.value, x))
    ELSE Count(s.call, x)
RECURSIVE CountStmts(_, _, _)
CountStmts(stmts, i, x) ==
    IF i > Len(stmts) THEN 0 ELSE CountStmt(stmts[i], x) + CountStmts(stmts, i + 1, x)

LastAugAssign(t) == last.op = "visit_AugAssign" /\ last.node.target.t = t
InPlace(op) == visit_op(op) \o "InPlace"

\* C9: `d[k] op= v` appends `var t0 = <d>`, `var t1 = <k>`, then what the lowering
\* of v declares, then `t0.setItem(t1, t0.getItem(t1).<op>InPlace(<v>))` with t0,
\* t1 new temps; `obj.attr op= v` appends `var t0 = <obj>`, what v declares, and
\* `t0.setAttr("attr", t0.getAttr("attr").<op>InPlace(<v>))`.  The lowered d, k
\* and obj occur once outside the lowered v, and executing the statements
\* evaluates d, then k, then the operands of v, each once.
C9_AugAssignTemps ==
    /\ LastAugAssign("Subscript") =>
          LET node == last.node
              p == last.pre.n_temps
              d == Lowered(node.target.value)
              k == Lowered(node.target.slice)
              v == LoweredFrom(node.value, p + 2)
              t0 == TempId(p)
              t1 == TempId(p + 1)
          IN /\ Appended =
                   <<JavaVariableDecl("var", t0.name, d), JavaVariableDecl("var", t1.name, k)>>
                   \o v.s.out
                   \o <<JavaExprStatement(JavaMethodCall(t0, "setItem",
                          <<t1, JavaMethodCall(JavaMethodCall(t0, "getItem", <<t1>>),
                                               InPlace(node.op), <<v.e>>)>>))>>
             /\ n_temps = v.s.n_temps
             /\ CountStmts(Appended, 1, d) = 1 + Count(v.e, d)
             /\ CountStmts(Appended, 1, k) = 1 + Count(v.e, k)
             /\ RunStmts(Appended, 1, Start, AllTrue).trace
                   = <<d, k>> \o PyOperands(node.value)
    /\ LastAugAssign("Attribute") =>
          LET node == last.node
              p == last.pre.n_temps
              obj == Lowered(node.target.value)
              v == LoweredFrom(node.value, p + 1)
              t0 == TempId(p)
              attr == JavaStrLiteral(node.target.attr)
          IN /\ Appended =
                   <<JavaVariableDecl("var", t0.name, obj)>>
                   \o v.s.out
                   \o <<JavaExprStatement(JavaMethodCall(t0, "setAttr",
                          <<attr, JavaMethodCall(JavaMethodCall(t0, "getAttr", <<attr>>),
                                                 InPlace(node.op), <<v.e>>)>>))>>
             /\ n_temps = v.s.n_temps
             /\ CountStmts(Appended, 1, obj) = 1 + Count(v.e, obj)
             /\ RunStmts(Appended, 1, Start, AllTrue).trace
                   = <<obj>> \o PyOperands(node.value)

\* C9's case: `f()[k] op= a < b < c` as the second statement: the call f() is
\* evaluated once, into the first of two new temps, and the value's temp is
\* declared after them.
C9_Witness ==
    /\ LastAugAssign("Subscript")
    /\ last.pre.n_temps > 0
    /\ last.node.target.value = Call(Name("f"), <<>>)
    /\ last.node.value.t = "Compare"
    /\ n_temps = last.pre.n_temps + 3
    /\ Len(Appended) = 4
    /\ Appended[1] = JavaVariableDecl("var", temp_name_of(last.pre.n_temps),
                                      Lowered(Call(Name("f"), <<>>)))
    /\ Multiplicity(RunStmts(Appended, 1, Start, AllTrue).trace,
                    Lowered(Call(Name("f"), <<>>))) = 1

(***************************************************************************)
(* Boolean operations: expression statements `v1 and v2 ...` and           *)
(* `v1 or v2 ...` with 2 to MaxBoolOperands operands, names of which at    *)
(* most one is called, with a different name at each position.             *)
(***************************************************************************)
OperandNames == <<"a", "b", "c", "d">>
OperandName(i) == OperandNames[((i - 1) % Len(OperandNames)) + 1]
OperandLists(n) ==
    {[i \in 1..n |-> IF i = called THEN Call(Name(OperandName(i)), <<>>)
                                   ELSE Name(OperandName(i))] : called \in 0..n}
BoolOps ==
    UNION {{BoolOp(op, vs) : op \in {"And", "Or"}, vs \in OperandLists(n)} :
              n \in 2..MaxBoolOperands}
BoolOpExprs == {Expr(b) : b \in BoolOps}

NextBoolOp == \E node \in BoolOpExprs : visit_Expr(node)

SpecBoolOp == InitLower /\ [][NextBoolOp]_vars

RECURSIVE PyBoolOp(_, _, _, _)
\* Python's evaluation of a boolean operation from its i-th operand on: the
\* value and the operands evaluated.
PyBoolOp(node, i, trace, o) ==
    LET operand == Lowered(node.values[i])
        evaluated == Append(trace, operand)
        goes_on == IF node.op = "And" THEN o.truth[operand] ELSE ~o.truth[operand]
    IN IF i < Len(node.values) /\ goes_on
       THEN PyBoolOp(node, i + 1, evaluated, o)
       ELSE [v |-> operand, trace |-> evaluated]

RECURSIVE NestedTernaries(_, _, _, _)
\* e is the lowering of the operands from the i-th on, the first temp being p.
NestedTernaries(e, node, i, p) ==
    LET t == TempId(p + i - 1) IN
    IF i = Len(node.values) THEN e = Lowered(node.values[i])
    ELSE /\ e.j = "JavaCondOp"
         /\ e.cond = JavaMethodCall(JavaAssignExpr(t, Lowered(node.values[i])),
                                    "boolValue", <<>>)
         /\ IF node.op = "And"
            THEN e.false = t /\ NestedTernaries(e.true, node, i + 1, p)
            ELSE e.true = t /\ NestedTernaries(e.false, node, i + 1, p)

LastBoolOp == last.op = "visit_Expr" /\ last.node.value.t = "BoolOp"

\* C10: a boolean operation of n operands lowers to ternaries nested to the right,
\* `(t = <a>).boolValue() ? <rest> : t` for `and` and `(t = <a>).boolValue() ? t :
\* <rest>` for `or`, over n - 1 temps that are new and declared before the
\* statement; each operand's expression occurs once; and for every truth of the
\* operands the lowered expression evaluates the operands Python evaluates, in
\* the same order, and its value is the operand evaluated last.
C10_BoolOpTernaries ==
    LastBoolOp =>
        LET node == last.node.value
            n == Len(node.values)
            p == last.pre.n_temps
            e == LastStmt.rhs
            operands == {Lowered(node.values[i]) : i \in 1..n}
        IN /\ NestedTernaries(e, node, 1, p)
           /\ n_temps = p + n - 1
           /\ Appended = [i \in 1 .. (n - 1) |->
                             JavaVariableDecl("PyObject", temp_name_of(p + i - 1), NoValue)]
                         \o <<JavaAssignStatement(JavaIdentifier("expr_discard"), e)>>
           /\ \A x \in operands : Count(e, x) = 1
           /\ \A truth \in [operands -> BOOLEAN] :
                 LET o == [cmp |-> <<>>, truth |-> truth]
                     java == JavaEval(e, Start, o)
                     py == PyBoolOp(node, 1, <<>>, o)
                 IN /\ java.v = py.v
                    /\ java.st.trace = py.trace
                    /\ java.v = java.st.trace[Len(java.st.trace)]

\* C10's case: `a and b and c` (names or calls) as the second statement, which
\* with a truthy and b falsy evaluates a and b only and has the value of b.
C10_Witness ==
    /\ LastBoolOp
    /\ last.node.value.op = "And"
    /\ Len(last.node.value.values) = 3
    /\ last.pre.n_temps > 0
    /\ n_temps = last.pre.n_temps + 2
    /\ LET node == last.node.value
           a == Lowered(node.values[1])
           b == Lowered(node.values[2])
           c == Lowered(node.values[3])
           o == [cmp |-> <<>>, truth |-> (a :> TRUE) @@ (b :> FALSE) @@ (c :> TRUE)]
           java == JavaEval(LastStmt.rhs, Start, o)
       IN java.v = b /\ java.st.trace = <<a, b>>

(***************************************************************************)
(* Function definitions: module-level statements and defs of up to two     *)
(* parameters whose bodies read, bind and call.                            *)
(***************************************************************************)
DefArgs == {<<>>, <<"x">>, <<"x", "y">>}
DefDefs == {FunctionDef("f", a) : a \in DefArgs}
DefExprs == {Expr(Call(Name("f"), <<>>)), Expr(Name("y"))}
DefAssigns == {Assign(<<Name(n)>>, Constant(PyNoneValue)) : n \in {"x", "y"}}

InitDef == Fresh /\ fuel = MaxDefStmts

NextDef ==
    \/ \E node \in DefDefs : visit_FunctionDef_body(node)
    \/ visit_FunctionDef_end
    \/ \E node \in DefExprs : visit_Expr(node)
    \/ \E node \in DefAssigns : visit_Assign(node)
    \/ visit_Return(ReturnNone)

SpecDef == InitDef /\ [][NextDef]_vars

RECURSIVE SubExprs(_)
\* The expressions an expression consists of, itself included.
SubExprs(e) ==
    {e} \cup
    CASE e.j = "JavaField" -> SubExprs(e.obj)
      [] e.j = "JavaArrayAccess" -> SubExprs(e.obj) \cup SubExprs(e.index)
      [] e.j = "JavaUnaryOp" -> SubExprs(e.operand)
      [] e.j \in {"JavaBinaryOp", "JavaAssignExpr"} -> SubExprs(e.lhs) \cup SubExprs(e.rhs)
      [] e.j = "JavaCondOp" ->
            SubExprs(e.cond) \cup SubExprs(e.true) \cup SubExprs(e.false)
      [] e.j = "JavaCreateObject" -> UNION {SubExprs(e.args[i]) : i \in DOMAIN e.args}
      [] e.j = "JavaCreateArray" -> UNION {SubExprs(e.elts[i]) : i \in DOMAIN e.elts}
      [] e.j = "JavaMethodCall" ->
            SubExprs(e.obj) \cup UNION {SubExprs(e.args[i]) : i \in DOMAIN e.args}
      [] OTHER -> {}

\* The expressions a statement holds directly.
StmtExprs(s) ==
    CASE s.j = "JavaVariableDecl" -> IF s.value = NoValue THEN {} ELSE {s.value}
      [] s.j = "JavaAssignStatement" -> {s.lhs, s.rhs}
      [] s.j = "JavaExprStatement" -> {s.call}
      [] s.j \in {"JavaReturnStatement", "JavaThrowStatement"} -> {s.expr}
      [] s.j \in {"JavaIfStatement", "JavaWhileStatement"} -> {s.cond}
      [] s.j = "JavaForStatement" -> {s.init_value, s.cond, s.incr_value}
      [] OTHER -> {}

RECURSIVE ExprsOf(_)
\* Every expression of a statement, at any depth.
ExprsOf(s) ==
    UNION {SubExprs(e) : e \in StmtExprs(s)}
    \cup UNION {UNION {ExprsOf(b[i]) : i \in DOMAIN b} : b \in Blocks(s)}

\* The reads `args[...]` of a statement.
ArgsReads(s) ==
    {e \in ExprsOf(s) : e.j = "JavaArrayAccess" /\ e.obj = JavaIdentifier("args")}

\* A function's call body has just been emitted.
Emitted == last.op = "visit_FunctionDef_end" /\ ~last.frame.nested

\* C11: in the call body emitted for a function of n parameters, the first
\* statement is `if (kwargs != null && kwargs.boolValue()) throw ...`, the second
\* is `if (args.length != n) throw Runtime.raiseUserExactArgs(...)`, neither reads
\* args[i], no statement of the lowered body stands before them, and every read
\* args[i] of the body is at an index 0 <= i < n.
C11_ArgsChecked ==
    Emitted =>
        LET node == last.node
            n == Len(node.args)
            call == functions[node.name]
            kwargs == JavaIdentifier("kwargs")
        IN /\ Len(call) >= 2
           /\ call[1].j = "JavaIfStatement"
           /\ call[1].cond = JavaBinaryOp("&&",
                                 JavaBinaryOp("!=", kwargs, JavaIdentifier("null")),
                                 JavaMethodCall(kwargs, "boolValue", <<>>))
           /\ Len(call[1].body) = 1 /\ call[1].body[1].j = "JavaThrowStatement"
           /\ call[1].orelse = <<>>
           /\ call[2].j = "JavaIfStatement"
           /\ call[2].cond = JavaBinaryOp("!=", JavaField(JavaIdentifier("args"), "length"),
                                          JavaIntLiteral(n, ""))
           /\ Len(call[2].body) = 1 /\ call[2].body[1].j = "JavaThrowStatement"
           /\ call[2].body[1].expr.j = "JavaMethodCall"
           /\ call[2].body[1].expr.method = "raiseUserExactArgs"
           /\ call[2].orelse = <<>>
           /\ ArgsReads(call[1]) = {} /\ ArgsReads(call[2]) = {}
           /\ \A k \in 1..2 : \A i \in DOMAIN last.frame.body :
                 call[k] # last.frame.body[i]
           /\ \A k \in DOMAIN call : \A r \in ArgsReads(call[k]) :
                 /\ r.index.j = "JavaIntLiteral"
                 /\ 0 <= r.index.value /\ r.index.value < n

\* C11's case: a function of two parameters with a non-empty body was emitted,
\* and its call body reads args[1] after the two checks.
C11_Witness ==
    /\ Emitted
    /\ Len(last.node.args) = 2
    /\ last.frame.body # <<>>
    /\ \E k \in 3 .. Len(functions[last.node.name]) :
          JavaArrayAccess(JavaIdentifier("args"), JavaIntLiteral(1, ""))
              \in ArgsReads(functions[last.node.name][k])

(***************************************************************************)
(* Emission: the emit_java methods, EmitContext.emit_java and write_java.  *)
(* The text of an expression is a string.  A line is the sequence of its   *)
(* pieces, a brace that opens or closes a block at the end or start of a   *)
(* line being a piece of its own (the text is their concatenation), and    *)
(* the empty line is <<>>.                                                 *)
(***************************************************************************)
CHAR_ESCAPE ==
    (34 :> "\\\"") @@ (92 :> "\\\\") @@ (10 :> "\\n") @@ (13 :> "\\r")
    @@ (9 :> "\\t") @@ (8 :> "\\b") @@ (12 :> "\\f")

\* chr(o) of the safe ASCII characters of the strings in ord.
chr ==
    (97 :> "a") @@ (98 :> "b") @@ (99 :> "c") @@ (100 :> "d") @@ (101 :> "e")
    @@ (102 :> "f") @@ (103 :> "g") @@ (107 :> "k") @@ (108 :> "l") @@ (110 :> "n")
    @@ (118 :> "v") @@ (120 :> "x") @@ (121 :> "y")

HexDigits == <<"0", "1", "2", "3", "4", "5", "6", "7", "8", "9",
               "a", "b", "c", "d", "e", "f">>
\* f'{o:04x}' for 0 <= o <= 0xFFFF.
hex04(o) ==
    HexDigits[(o \div 4096) + 1] \o HexDigits[((o \div 256) % 16) + 1]
    \o HexDigits[((o \div 16) % 16) + 1] \o HexDigits[(o % 16) + 1]

\* java_string_literal raises ValueError: s holds a surrogate code point.
java_string_literal_raises(s) ==
    s \in DOMAIN ord /\ \E i \in DOMAIN ord[s] : 55296 <= ord[s][i] /\ ord[s][i] <= 57343

RECURSIVE java_string_literal_loop(_, _, _)
java_string_literal_loop(cs, i, out) ==
    IF i > Len(cs) THEN out
    ELSE LET o == cs[i]
         IN java_string_literal_loop(cs, i + 1,
                out \o (IF o \in DOMAIN CHAR_ESCAPE THEN CHAR_ESCAPE[o]
                        ELSE IF 32 <= o /\ o <= 126 THEN chr[o]
                        ELSE "\\u" \o hex04(o)))

\* java_string_literal where it returns.  The strings outside ord are the
\* identifiers and messages the translator makes up, of safe ASCII characters,
\* which the loop copies.
java_string_literal(s) ==
    IF s \in DOMAIN ord
    THEN java_string_literal_loop(ord[s], 1, "\"") \o "\""
    ELSE "\"" \o s \o "\""

RECURSIVE emit_java(_)
RECURSIVE join_emit_java(_, _)
\* ', '.join(x.emit_java() for x in es), from the i-th on.
join_emit_java(es, i) ==
    IF i > Len(es) THEN ""
    ELSE emit_java(es[i]) \o (IF i < Len(es) THEN ", " ELSE "") \o join_emit_java(es, i + 1)

\* JavaExpr.emit_java of each class.
emit_java(e) ==
    CASE e.j = "JavaIntLiteral" -> ToString(e.value) \o e.suffix
      [] e.j = "JavaStrLiteral" -> java_string_literal(e.s)
      [] e.j = "JavaIdentifier" -> e.name
      [] e.j = "JavaField" -> emit_java(e.obj) \o "." \o e.field
      [] e.j = "JavaArrayAccess" -> emit_java(e.obj) \o "[" \o emit_java(e.index) \o "]"
      [] e.j = "JavaUnaryOp" -> "(" \o e.op \o emit_java(e.operand) \o ")"
      [] e.j = "JavaBinaryOp" ->
            "(" \o emit_java(e.lhs) \o " " \o e.op \o " " \o emit_java(e.rhs) \o ")"
      [] e.j = "JavaCondOp" ->
            "(" \o emit_java(e.cond) \o " ? " \o emit_java(e.true) \o " : "
            \o emit_java(e.false) \o ")"
      [] e.j = "JavaCreateObject" ->
            "new " \o e.type \o "(" \o join_emit_java(e.args, 1) \o ")"
      [] e.j = "JavaCreateArray" ->
            "new " \o e.type \o "[] {" \o join_emit_java(e.elts, 1) \o "}"
      [] e.j = "JavaMethodCall" ->
            emit_java(e.obj) \o "." \o e.method \o "(" \o join_emit_java(e.args, 1) \o ")"
      [] e.j = "JavaAssignExpr" ->
            "(" \o emit_java(e.lhs) \o " = " \o emit_java(e.rhs) \o ")"

RECURSIVE JavaStatement_emit_java(_)
RECURSIVE block_emit_java_loop(_, _)
block_emit_java_loop(block, i) ==
    IF i > Len(block) THEN <<>>
    ELSE JavaStatement_emit_java(block[i]) \o block_emit_java_loop(block, i + 1)

block_emit_java(block) == block_emit_java_loop(block, 1)

\* JavaStatement.emit_java of each class: the lines of a statement.
JavaStatement_emit_java(s) ==
    CASE s.j = "JavaVariableDecl" ->
            \* `if self.value:` is true of every JavaExpr, false of None
            IF s.value # NoValue
            THEN <<<<s.type \o " " \o s.name \o " = " \o emit_java(s.value) \o ";">>>>
            ELSE <<<<s.type \o " " \o s.name \o ";">>>>
      [] s.j = "JavaAssignStatement" ->
            <<<<emit_java(s.lhs) \o " = " \o emit_java(s.rhs) \o ";">>>>
      [] s.j = "JavaExprStatement" -> <<<<emit_java(s.call) \o ";">>>>
      [] s.j = "JavaBreakStatement" ->
            IF s.name # None THEN <<<<"break " \o s.name \o ";">>>> ELSE <<<<"break;">>>>
      [] s.j = "JavaContinueStatement" -> <<<<"continue;">>>>
      [] s.j = "JavaReturnStatement" -> <<<<"return " \o emit_java(s.expr) \o ";">>>>
      [] s.j = "JavaThrowStatement" -> <<<<"throw " \o emit_java(s.expr) \o ";">>>>
      [] s.j = "JavaIfStatement" ->
            <<<<"if (" \o emit_java(s.cond) \o ") ", "{">>>>
            \o block_emit_java(s.body)
            \o (IF s.orelse # <<>>
                THEN <<<<"}", " else ", "{">>>> \o block_emit_java(s.orelse)
                ELSE <<>>)
            \o <<<<"}">>>>
      [] s.j = "JavaWhileStatement" ->
            <<<<"while (" \o emit_java(s.cond) \o ") ", "{">>>>
            \o block_emit_java(s.body)
            \o <<<<"}">>>>
      [] s.j = "JavaForStatement" ->
            <<<<"for (" \o s.init_type \o " " \o s.init_name \o " = "
                \o emit_java(s.init_value) \o "; " \o emit_java(s.cond) \o "; "
                \o s.incr_name \o " = " \o emit_java(s.incr_value) \o ") ", "{">>>>
            \o block_emit_java(s.body)
            \o <<<<"}">>>>
      [] s.j = "JavaTryStatement" ->
            <<<<"try ", "{">>>>
            \o block_emit_java(s.try_body)
            \o (IF s.exc_type # None
                THEN <<<<"}", " catch (" \o s.exc_type \o " " \o s.exc_name \o ") ", "{">>>>
                     \o block_emit_java(s.catch_body)
                ELSE <<>>)
            \o (IF s.finally_body # <<>>
                THEN <<<<"}", " finally ", "{">>>> \o block_emit_java(s.finally_body)
                ELSE <<>>)
            \o <<<<"}">>>>
      [] s.j = "JavaLabeledBlock" ->
            <<<<s.name \o ": ", "{">>>>
            \o block_emit_java(s.body)
            \o <<<<"}">>>>

\* The iteration of a set of int in ascending or in descending order.
IntOrders == {"ascending", "descending"}
RECURSIVE int_set_iter(_, _)
int_set_iter(S, order) ==
    IF S = {} THEN <<>>
    ELSE LET m == IF order = "ascending"
                  THEN CHOOSE x \in S : \A y \in S : x <= y
                  ELSE CHOOSE x \in S : \A y \in S : x >= y
         IN <<m>> \o int_set_iter(S \ {m}, order)

\* dict.items(): the pairs in insertion order, which is the order of the indices
\* emit_constant gave.
items(pool) ==
    [i \in 1..Cardinality(DOMAIN pool) |->
        LET k == CHOOSE k \in DOMAIN pool : pool[k] = i - 1 IN <<k, pool[k]>>]

\* A byte emitted as it is, unsigned.
signed_byte_unsigned(x) == x

\* ((x + 0x80) & 0xFF) - 0x80; on a non-negative int, & 0xFF is the remainder
\* by 256.
signed_byte(x) == ((x + 128) % 256) - 128

\* JavaCreateArray('byte', [JavaIntLiteral(..., '') for x in k])
byte_array(k) ==
    JavaCreateArray("byte", [i \in DOMAIN k |-> JavaIntLiteral(signed_byte(k[i]), "")])

\* EmitContext.emit_java: the lines of the constant pool.
EmitContext_emit_java(int_order) ==
    LET it == int_set_iter(all_ints, int_order)
        ints == py_sorted([i \in DOMAIN it |-> PyIntValue(it[i])])
        sit == items(all_strings)
        strs == py_sorted([i \in DOMAIN sit |->
                    PyTupleValue(<<PyStrValue(sit[i][1]), PyIntValue(sit[i][2])>>)])
        bit == items(all_bytes)
        bytes == py_sorted([i \in DOMAIN bit |->
                    PyTupleValue(<<PyBytesValue(bit[i][1]), PyIntValue(bit[i][2])>>)])
    IN [i \in DOMAIN ints |->
           <<"private static final PyInt " \o int_name(ints[i].i) \o " = "
             \o emit_java(JavaCreateObject("PyInt", <<JavaIntLiteral(ints[i].i, "L")>>))
             \o ";">>]
       \o [i \in DOMAIN strs |->
           <<"private static final PyString str_singleton_"
             \o ToString(strs[i].elts[2].i) \o " = "
             \o emit_java(JavaCreateObject("PyString",
                    <<JavaStrLiteral(strs[i].elts[1].s)>>))
             \o ";">>]
       \o [i \in DOMAIN bytes |->
           <<"private static final PyBytes bytes_singleton_"
             \o ToString(bytes[i].elts[2].i) \o " = "
             \o emit_java(JavaCreateObject("PyBytes",
                    <<byte_array(bytes[i].elts[1].bs)>>))
             \o ";">>]

\* self.functions[node.name] of visit_FunctionDef: the lines of the class of a
\* function, from its call body.
function_lines(name, func_code) ==
    <<<<"private static final class pyfunc_" \o name \o " extends PyUserFunction ", "{">>,
      <<"pyfunc_" \o name \o "() ", "{">>,
      <<"super(" \o java_string_literal(name) \o ");">>,
      <<"}">>,
      <<"@Override public PyObject call(PyObject[] args, PyDict kwargs) ", "{">>>>
    \o block_emit_java(func_code)
    \o <<<<"}">>, <<"}">>>>

RECURSIVE write_java_functions(_, _)
write_java_functions(fs, i) ==
    IF i > Len(fs) THEN <<>>
    ELSE function_lines(fs[i], functions[fs[i]]) \o <<<<>>>>
         \o write_java_functions(fs, i + 1)

\* The lines write_java gives the writer, in order, with the sets iterated in the
\* orders h (sets of str) and int_order (sets of int).
write_java(py_name, h, int_order) ==
    LET \* sorted(self.functions.items()): the names are distinct, so the pairs
        \* are ordered by name
        fs == sorted_iter(DOMAIN functions, h)
        globals == sorted_iter(global_names, h)
    IN <<<<"public final class " \o py_name \o " ", "{">>>>
       \o EmitContext_emit_java(int_order)
       \o <<<<>>>>
       \o write_java_functions(fs, 1)
       \o [i \in DOMAIN globals |->
              <<"private static PyObject pyglobal_" \o globals[i] \o " = PyNone.singleton;">>]
       \o <<<<>>>>
       \o <<<<"public static void main(String[] args) ", "{">>>>
       \o block_emit_java(block_simplify(global_code))
       \o <<<<"}">>, <<"}">>>>

(***************************************************************************)
(* The emitted class: modules that assign literals to globals and define   *)
(* the functions f and g.                                                  *)
(***************************************************************************)
EmitPairs ==
    {<<PyIntValue(7), PyIntValue(2)>>, <<PyStrValue("b"), PyStrValue("a")>>,
     <<PyBytesValue(<<200>>), PyBytesValue(<<97>>)>>}
EmitAssigns ==
    {Assign(<<Name("x")>>, BinOp(Constant(p[1]), "Add", Constant(p[2]))) : p \in EmitPairs}
    \cup {Assign(<<Name("a")>>, Constant(PyNoneValue))}
EmitDefs == {FunctionDef("g", <<>>), FunctionDef("f", <<"x">>)}

InitEmit == Fresh /\ fuel = MaxEmitStmts

NextEmit ==
    \/ \E node \in EmitAssigns : visit_Assign(node)
    \/ \E node \in EmitDefs : visit_FunctionDef_body(node)
    \/ visit_FunctionDef_end

SpecEmit == InitEmit /\ [][NextEmit]_vars

\* The index of a line in the lines out, and whether it is one of them.
Pos(out, line) == CHOOSE i \in DOMAIN out : out[i] = line
Occurs(out, line) == \E i \in DOMAIN out : out[i] = line

IntLine(i) ==
    <<"private static final PyInt " \o int_name(i) \o " = new PyInt("
      \o ToString(i) \o "L);">>
\* The line of a pool string that is a single safe character.
StrLine(s) ==
    <<"private static final PyString str_singleton_" \o ToString(all_strings[s])
      \o " = new PyString(\"" \o s \o "\");">>
\* The line of a pool bytes of a single byte, as Java's signed byte.
BytesLine(bs) ==
    <<"private static final PyBytes bytes_singleton_" \o ToString(all_bytes[bs])
      \o " = new PyBytes(new byte[] {"
      \o ToString(IF bs[1] >= 128 THEN bs[1] - 256 ELSE bs[1]) \o "});">>
ClassLine(f) ==
    <<"private static final class pyfunc_" \o f \o " extends PyUserFunction ", "{">>
GlobalLine(n) == <<"private static PyObject pyglobal_" \o n \o " = PyNone.singleton;">>
MainLine == <<"public static void main(String[] args) ", "{">>

\* One line per pool entry, function and global, by section.
Sections ==
    <<{IntLine(i) : i \in all_ints},
      {StrLine(s) : s \in DOMAIN all_strings},
      {BytesLine(bs) : bs \in DOMAIN all_bytes},
      {ClassLine(f) : f \in DOMAIN functions},
      {GlobalLine(n) : n \in global_names},
      {MainLine}>>

\* C12: the class written does not depend on the order in which the sets of the
\* visitor iterate (the one thing Python leaves open between two runs on the same
\* AST); it lists the pool integers in numeric order, then the pool strings and
\* then the pool bytes by literal value, then the function classes by name, then
\* the pyglobal_ declarations by name, then main; and the declarations of a
\* function's locals do not depend on the iteration order either.
C12_Deterministic ==
    LET out == write_java("t", HashOrder, "ascending")
        pos == [k \in DOMAIN Sections |-> [l \in Sections[k] |-> Pos(out, l)]]
    IN
    /\ \A h \in HashOrders : \A o \in IntOrders : write_java("t", h, o) = out
    /\ \A k \in DOMAIN Sections : \A l \in Sections[k] : Occurs(out, l)
    /\ \A k1, k2 \in DOMAIN Sections :
          k1 < k2 => \A l1 \in Sections[k1] : \A l2 \in Sections[k2] :
                        pos[k1][l1] < pos[k2][l2]
    /\ \A i1, i2 \in all_ints : i1 < i2 => pos[1][IntLine(i1)] < pos[1][IntLine(i2)]
    /\ \A s1, s2 \in DOMAIN all_strings :
          seq_lt(ord[s1], ord[s2]) => pos[2][StrLine(s1)] < pos[2][StrLine(s2)]
    /\ \A b1, b2 \in DOMAIN all_bytes :
          seq_lt(b1, b2) => pos[3][BytesLine(b1)] < pos[3][BytesLine(b2)]
    /\ \A f1, f2 \in DOMAIN functions :
          seq_lt(ord[f1], ord[f2]) => pos[4][ClassLine(f1)] < pos[4][ClassLine(f2)]
    /\ \A n1, n2 \in global_names :
          seq_lt(ord[n1], ord[n2]) => pos[5][GlobalLine(n1)] < pos[5][GlobalLine(n2)]
    /\ Emitted =>
          \A h \in HashOrders :
             LET locals == sorted_iter(local_names, h)
                 decls == SelectSeq(functions[last.node.name],
                              LAMBDA s : s.j = "JavaVariableDecl" /\ s.value = NoValue)
             IN decls = [i \in DOMAIN locals |->
                            JavaVariableDecl("PyObject", "pylocal_" \o locals[i], NoValue)]

\* C12's case: a module that computes 7 + 2, which records 7 before 2, and
\* defines f and g.
C12_Witness ==
    /\ all_ints = {2, 7}
    /\ DOMAIN functions = {"f", "g"}
    /\ stack = <<>>
    /\ LET out == write_java("t", HashOrder, "ascending")
       IN /\ Pos(out, ClassLine("f")) < Pos(out, ClassLine("g"))
          /\ Pos(out, IntLine(2)) < Pos(out, IntLine(7))

(***************************************************************************)
(* Errors: modules with constructs, literals, binding forms and statement  *)
(* forms the translator does not support, and a string literal that holds  *)
(* a surrogate code point.                                                 *)
(***************************************************************************)
ErrExprs ==
    {Expr(Lambda), Expr(Constant(PyFloatValue)), Expr(Constant(PyStrValue(Surrogate))),
     Expr(Constant(PyStrValue("a"))), Expr(Name("x"))}
ErrAssigns ==
    {Assign(<<Tuple(<<Name("x"), Attribute(Name("d"), "attr")>>)>>, Name("y")),
     Assign(<<Name("x")>>, Constant(PyFloatValue))}
ErrGlobals == {Global(<<"x">>)}
ErrDefs == {FunctionDef("f", <<>>)}

InitErr == Fresh /\ fuel = MaxErrStmts

NextErr ==
    \/ \E node \in ErrExprs : visit_Expr(node)
    \/ \E node \in ErrAssigns : visit_Assign(node)
    \/ \E node \in ErrGlobals : visit_Global(node)
    \/ \E node \in ErrDefs : visit_FunctionDef_body(node)
    \/ visit_FunctionDef_end

SpecErr == InitErr /\ [][NextErr]_vars

\* emit_java of an expression of the statement raises.
JavaStatement_emit_java_raises(s) ==
    \E e \in ExprsOf(s) : e.j = "JavaStrLiteral" /\ java_string_literal_raises(e.s)

\* write_java raises: java_string_literal meets a surrogate in a string of the
\* pool, of a function or of the module code.
write_java_raises ==
    \/ \E s \in DOMAIN all_strings : java_string_literal_raises(s)
    \/ \E f \in DOMAIN functions : \E i \in DOMAIN functions[f] :
          JavaStatement_emit_java_raises(functions[f][i])
    \/ \E i \in DOMAIN global_code : JavaStatement_emit_java_raises(global_code[i])

\* The errors an expression of the inputs holds, by kind, and the placeholder
\* that stands for it.
ExprErrors(e) ==
    CASE e.t = "Lambda" -> 1
      [] e.t = "Constant" /\ e.value.ty = "float" -> 1
      [] e.t = "Constant" /\ e.value.ty = "str" /\ e.value.s = Surrogate -> 1
      [] OTHER -> 0
Placeholder(e) ==
    IF e.t = "Constant" THEN JavaIdentifier("__cannot_translate_constant__")
    ELSE JavaIdentifier("__cannot_translate_expr__")
\* The elements of an unpacking target that are no simple names.
BindErrors(target) ==
    IF target.t = "Tuple"
    THEN Cardinality({i \in DOMAIN target.elts : target.elts[i].t # "Name"})
    ELSE 0
\* The errors the statement the step op lowers holds; in_function is its value
\* before the step.
StmtErrors(op, node, frame) ==
    CASE op = "visit_Expr" -> ExprErrors(node.value)
      [] op = "visit_Assign" -> ExprErrors(node.value) + BindErrors(node.targets[1])
      [] op = "visit_Global" -> IF in_function THEN 0 ELSE 1
      [] op = "visit_FunctionDef_end" -> IF frame.nested THEN 1 ELSE 0
      [] OTHER -> 0

\* C13: every step of the translation adds to the error count one for each error
\* the statement holds (an unsupported construct, literal, binding form or
\* statement form, a string with a surrogate) and never lowers it; an erroneous
\* expression is lowered to its placeholder; and the class can then be written
\* without an exception.
C13_ErrorsCounted ==
    [][/\ n_errors' = n_errors + StmtErrors(last'.op, last'.node, last'.frame)
       /\ n_errors' >= n_errors
       /\ (last'.op = "visit_Expr" /\ ExprErrors(last'.node.value) = 1)
             => heap'[code'][Len(heap'[code'])].rhs = Placeholder(last'.node.value)
       /\ ~write_java_raises']_vars

(***************************************************************************)
(* The driver main(): it builds the runtime, translates each requested     *)
(* unit with a visitor of its own, writes the unit's class when the visit  *)
(* counted no error, compiles the classes written and runs them.           *)
(***************************************************************************)
visitor_vars ==
    <<n_errors, n_temps, global_names, local_names, names, explicit_globals, heap,
      code, n_alloc, all_ints, all_strings, all_bytes, in_function,
      used_expr_discard, break_name, functions, allow_intrinsics, stack, fuel, last,
      obs>>

\* `visitor = PythonjVisitor(py_path)`: a visitor of its own for the unit.
PythonjVisitor_new ==
    /\ n_errors' = 0
    /\ n_temps' = 0
    /\ global_names' = {}
    /\ local_names' = {}
    /\ names' = "global_names"
    /\ explicit_globals' = {}
    /\ heap' = (0 :> <<JavaVariableDecl("PyObject", "expr_discard", NoValue)>>)
    /\ code' = 0
    /\ n_alloc' = 0
    /\ all_ints' = {}
    /\ all_strings' = <<>>
    /\ all_bytes' = <<>>
    /\ in_function' = FALSE
    /\ used_expr_discard' = FALSE
    /\ break_name' = None
    /\ functions' = <<>>
    /\ allow_intrinsics' = FALSE
    /\ stack' = <<>>
    /\ last' = [op |-> "__init__", node |-> NoNode, pre |-> NoFrame, frame |-> NoFrame]
    /\ obs' = [fname |-> None, args |-> <<>>, assigned |-> {}, declared |-> {},
               refs |-> {}, literals |-> {}, done |-> FALSE]

\* main() before its first statement, n units requested.
Started(n) ==
    [pc |-> "build", n_units |-> n, unit |-> 1, errors |-> <<>>, written |-> {},
     javac |-> <<>>, status |-> None]

InitMain ==
    /\ Constructed
    /\ fuel = 0
    /\ main \in {Started(n) : n \in 1..MaxUnits}

\* Lines 1069-1077: the runtime is compiled and packed.
main_build_runtime ==
    /\ main.pc = "build"
    /\ main' = [main EXCEPT !.pc = "translate", !.javac = Append(@, "runtime")]
    /\ UNCHANGED visitor_vars

\* Lines 1080-1085: the next unit is parsed and given to a new visitor.
main_translate ==
    /\ main.pc = "translate"
    /\ main.unit <= main.n_units
    /\ PythonjVisitor_new
    /\ fuel' = MaxUnitStmts
    /\ main' = [main EXCEPT !.pc = "visit"]

\* A driver that writes the unit's file whatever the error count, and goes on.
main_written_unchecked ==
    /\ main.pc = "visit"
    /\ stack = <<>>
    /\ main' = [main EXCEPT !.errors = Append(@, n_errors),
                            !.written = @ \cup {main.unit},
                            !.unit = @ + 1, !.pc = "translate"]
    /\ UNCHANGED visitor_vars

\* Lines 1086-1090, after visitor.visit(node) returned: with errors counted the
\* run exits with status 1; otherwise the unit's file is opened and written, and
\* an exception of write_java ends the run with the file open.
main_written ==
    /\ main.pc = "visit"
    /\ stack = <<>>
    /\ main' =
         IF n_errors # 0
         THEN [main EXCEPT !.errors = Append(@, n_errors), !.pc = "exit", !.status = 1]
         ELSE IF write_java_raises
         THEN [main EXCEPT !.errors = Append(@, n_errors),
                           !.written = @ \cup {main.unit},
                           !.pc = "exit", !.status = 1]
         ELSE [main EXCEPT !.errors = Append(@, n_errors),
                           !.written = @ \cup {main.unit},
                           !.unit = @ + 1, !.pc = "translate"]
    /\ UNCHANGED visitor_vars

\* Lines 1094-1095: javac on the classes of all the units.
main_javac ==
    /\ main.pc = "translate"
    /\ main.unit > main.n_units
    /\ main' = [main EXCEPT !.pc = "run", !.javac = Append(@, "units"), !.unit = 1]
    /\ UNCHANGED visitor_vars

\* Lines 1099-1118: each unit is run under java and under python; outputs that
\* differ end the run with status 1.
main_run ==
    /\ main.pc = "run"
    /\ \E same \in BOOLEAN :
          main' = IF ~same THEN [main EXCEPT !.pc = "exit", !.status = 1]
                  ELSE IF main.unit < main.n_units THEN [main EXCEPT !.unit = @ + 1]
                  ELSE [main EXCEPT !.pc = "exit", !.status = 0]
    /\ UNCHANGED visitor_vars

MainExprs ==
    {Expr(Lambda), Expr(Name("x")), Expr(Constant(PyStrValue(Surrogate)))}

NextMain ==
    \/ main_build_runtime
    \/ main_translate
    \/ main.pc = "visit" /\ \E node \in MainExprs : visit_Expr(node)
    \/ main_written
    \/ main_javac
    \/ main_run

SpecMain == InitMain /\ [][NextMain]_vars

\* The units whose translation has ended, and those that ended with errors.
Translated == DOMAIN main.errors
Failed == {u \in Translated : main.errors[u] # 0}

\* C14: a unit's file is written only if the unit's error count was zero after
\* the visit; javac is run on the units only after every requested unit was
\* translated with zero errors; and once a unit has ended with a non-zero count
\* the run has exited with status 1, that unit's file is not written, javac was
\* not run on the units, and no step of the driver follows.
C14_AbortOnErrors ==
    /\ [](/\ \A u \in main.written : u \in Translated /\ main.errors[u] = 0
          /\ "units" \in Range(main.javac) =>
                /\ Translated = 1..main.n_units
                /\ Failed = {}
          /\ \A u \in Failed :
                /\ main.pc = "exit" /\ main.status = 1
                /\ u \notin main.written
                /\ "units" \notin Range(main.javac))
    /\ [][Failed = {}]_vars

\* C14's case: the first of two units was written, the second ended with an
\* error, and the run has exited.
C14_Witness ==
    /\ main.n_units = 2
    /\ main.written = {1}
    /\ main.errors = <<0, 1>>
    /\ main.pc = "exit"

(***************************************************************************)
(* Recursion: module-level functions whose bodies refer to the function    *)
(* itself, the function being named like a built-in or not.                *)
(***************************************************************************)
RecNames == {"f", "len"}
RecDefs == {FunctionDef(n, a) : n \in RecNames, a \in {<<>>, <<"x">>}}
RecExprs == {Expr(Call(Name(n), <<>>)) : n \in RecNames} \cup {Expr(Name("f"))}
RecAssigns == {Assign(<<Name("x")>>, Call(Name(n), <<>>)) : n \in RecNames}

InitRec == Fresh /\ fuel = MaxRecStmts

NextRec ==
    \/ \E node \in RecDefs : visit_FunctionDef_body(node)
    \/ visit_FunctionDef_end
    \/ \E node \in RecExprs : visit_Expr(node)
    \/ \E node \in RecAssigns : visit_Assign(node)

SpecRec == InitRec /\ [][NextRec]_vars

\* `pyglobal_f = new pyfunc_f();`
Initializer(f) ==
    JavaAssignStatement(pyglobal(f), JavaCreateObject("pyfunc_" \o f, <<>>))

\* The references to the function's own name made so far in its body.
OwnRefs == {r \in obs.refs : r.infn /\ r.name = obs.fname}

\* visit_FunctionDef has entered a module-level def and not lowered its body yet.
Entered == last.op = "visit_FunctionDef_body"

\* What holds of a module-level `def f` whatever f is named: on entry f is in the
\* module's name set, the initializer is the last statement of the module code
\* and nothing of the body is lowered; in the class written, pyglobal_f is
\* declared once as a static field, before main, and main holds the initializer.
DefIsGlobal ==
    /\ Entered =>
          /\ last.node.name \in global_names
          /\ heap[0] # <<>> /\ heap[0][Len(heap[0])] = Initializer(last.node.name)
          /\ heap[code] = <<>>
          /\ OwnRefs = {}
    /\ stack = <<>> =>
          LET out == write_java("t", HashOrder, "ascending")
          IN \A f \in DOMAIN functions :
                /\ Cardinality({i \in DOMAIN out : out[i] = GlobalLine(f)}) = 1
                /\ Pos(out, GlobalLine(f)) < Pos(out, MainLine)
                /\ \E i \in DOMAIN out :
                      /\ i > Pos(out, MainLine)
                      /\ out[i] = <<"pyglobal_" \o f \o " = new pyfunc_" \o f \o "();">>

\* C15 as stated: for a module-level `def f`, f is in the module's name set and
\* `pyglobal_f = new pyfunc_f()` is in the module code before the body of f is
\* lowered, every reference to f inside the body of f resolves to pyglobal_f, and
\* pyglobal_f is declared as a static field of the class.
C15_AsStated ==
    /\ DefIsGlobal
    /\ \A r \in OwnRefs : r.expr = pyglobal(r.name)

\* C15 amended: as above, except that inside the body of a function named like a
\* built-in the references to that name resolve to the built-in,
\* Runtime.pyglobal_f; in no case do they resolve to pylocal_f.
C15_RecursionIsGlobal ==
    /\ DefIsGlobal
    /\ \A r \in OwnRefs :
          /\ r.name \notin BUILTINS => r.expr = pyglobal(r.name)
          /\ r.name \in BUILTINS => r.expr = Runtime_pyglobal(r.name)
          /\ r.expr # pylocal(r.name)

\* C15's case: f was lowered with a call of f in its body, and so was len.
C15_Witness ==
    /\ stack = <<>>
    /\ DOMAIN functions = {"f", "len"}
    /\ last.op = "visit_FunctionDef_end"
    /\ last.node.name = "f"
    /\ \E r \in OwnRefs : r.expr = pyglobal("f")
    /\ Occurs(write_java("t", HashOrder, "ascending"), GlobalLine("f"))

(***************************************************************************)
(* ends_control_flow on the statements the visitor builds from returns,    *)
(* breaks, ifs, loops and try statements with and without a handler.       *)
(***************************************************************************)
TryFinally == Try(0, None, FALSE)

InitEnds == Fresh /\ fuel = MaxEndsStmts

NextEnds ==
    \/ visit_Expr(ExprX)
    \/ InLoop /\ visit_Break
    \/ visit_Return(ReturnNone)
    \/ visit_If_body(If(Name("x")))
    \/ visit_If_orelse
    \/ visit_If_end
    \/ visit_For_body(ForElse)
    \/ visit_For_orelse
    \/ visit_For_end
    \/ \E node \in {TryExcept, TryFinally} : visit_Try_body(node)
    \/ visit_Try_handler
    \/ visit_Try_finalbody
    \/ visit_Try_end
    \/ visit_FunctionDef_body(DefF)
    \/ visit_FunctionDef_end

SpecEnds == InitEnds /\ [][NextEnds]_vars

RECURSIVE SubStmts(_)
\* The statements of a block, at any depth.
SubStmts(block) ==
    UNION {{block[i]} \cup UNION {SubStmts(b) : b \in Blocks(block[i])} :
           i \in DOMAIN block}

\* Every statement the visitor holds: in the open blocks, in the blocks set aside
\* by the handlers in progress, and in the call bodies.
BuiltStmts ==
    UNION {SubStmts(heap[r]) : r \in DOMAIN heap}
    \cup UNION {SubStmts(functions[f]) : f \in DOMAIN functions}
    \cup UNION {SubStmts(stack[i].try_body) :
                   i \in {k \in DOMAIN stack : "try_body" \in DOMAIN stack[k]}}

RECURSIVE EndsAsStated(_)
\* The statement's answer as the claim lists the cases.
EndsAsStated(s) ==
    LET ends(block) == block # <<>> /\ EndsAsStated(block[Len(block)])
    IN \/ s.j \in {"JavaReturnStatement", "JavaThrowStatement", "JavaBreakStatement",
                   "JavaContinueStatement"}
       \/ s.j = "JavaIfStatement" /\ ends(s.body) /\ ends(s.orelse)
       \/ /\ s.j = "JavaTryStatement"
          /\ \/ ends(s.finally_body)
             \/ s.exc_type # None /\ ends(s.try_body) /\ ends(s.catch_body)

RECURSIVE EndsAmended(_)
EndsAmended(s) ==
    LET ends(block) == block # <<>> /\ EndsAmended(block[Len(block)])
    IN \/ s.j \in {"JavaReturnStatement", "JavaThrowStatement", "JavaBreakStatement",
                   "JavaContinueStatement"}
       \/ s.j = "JavaIfStatement" /\ ends(s.body) /\ ends(s.orelse)
       \/ /\ s.j = "JavaTryStatement"
          /\ \/ ends(s.finally_body)
             \/ s.exc_type # None /\ ends(s.try_body) /\ ends(s.catch_body)
             \/ s.exc_type = None /\ ends(s.try_body)

Declared(call) ==
    SelectSeq(call, LAMBDA s : s.j = "JavaVariableDecl")
Uninitialised(call) ==
    SelectSeq(call, LAMBDA s : s.j = "JavaVariableDecl" /\ s.value = NoValue
                               /\ s.name # "expr_discard")

\* C18: the call body declares each parameter once as
\* `PyObject pylocal_<arg> = args[i]`, declares an uninitialised
\* `PyObject pylocal_<name>` only for the names assigned in the body that are not
\* parameters, in sorted order, and declares no name twice.
C18_DeclaredOnce ==
    Emitted =>
        LET node == last.node
            call == functions[node.name]
            decls == Declared(call)
            others == sorted(obs.assigned \ Range(node.args))
        IN /\ \A i \in DOMAIN node.args :
                 Cardinality({k \in DOMAIN decls :
                                 decls[k].name = "pylocal_" \o node.args[i]}) = 1
           /\ \A i \in DOMAIN node.args :
                 \E k \in DOMAIN decls :
                    decls[k] = JavaVariableDecl("PyObject", "pylocal_" \o node.args[i],
                                   JavaArrayAccess(JavaIdentifier("args"),
                                                   JavaIntLiteral(i - 1, "")))
           /\ Uninitialised(call) =
                 [i \in DOMAIN others |->
                     JavaVariableDecl("PyObject", "pylocal_" \o others[i], NoValue)]
           /\ \A k1, k2 \in DOMAIN decls : decls[k1].name = decls[k2].name => k1 = k2

(***************************************************************************)
(* Temporaries: module-level statements and function bodies that take      *)
(* temps as variables (subscript stores, for loops, handlers) and as block *)
(* labels (loops with else), interleaved.                                  *)
(***************************************************************************)
StoreXY == Assign(<<Subscript(Name("x"), Name("y"))>>, Constant(PyNoneValue))

InitTemps == Fresh /\ fuel = MaxTempStmts

NextTemps ==
    \/ visit_Assign(StoreXY)
    \/ visit_For_body(ForElse)
    \/ visit_For_orelse
    \/ visit_For_end
    \/ visit_Try_body(TryExcept)
    \/ visit_Try_handler
    \/ visit_Try_finalbody
    \/ visit_Try_end
    \/ visit_FunctionDef_body(DefF)
    \/ visit_FunctionDef_end

SpecTemps == InitTemps /\ [][NextTemps]_vars

\* The names a statement itself introduces: a declared variable, a label, the
\* variable of a for statement, the variable of a catch clause.
Introduced(s) ==
    CASE s.j = "JavaVariableDecl" -> <<s.name>>
      [] s.j = "JavaLabeledBlock" -> <<s.name>>
      [] s.j = "JavaForStatement" -> <<s.init_name>>
      [] s.j = "JavaTryStatement" -> IF s.exc_type # None THEN <<s.exc_name>> ELSE <<>>
      [] OTHER -> <<>>

RECURSIVE IntroducedIn(_, _)
\* The names introduced in a block from its i-th statement on, at any depth, one
\* entry per introduction.
IntroducedIn(block, i) ==
    IF i > Len(block) THEN <<>>
    ELSE LET s == block[i]
             inner ==
                 CASE s.j = "JavaIfStatement" ->
                         IntroducedIn(s.body, 1) \o IntroducedIn(s.orelse, 1)
                   [] s.j \in {"JavaWhileStatement", "JavaForStatement",
                               "JavaLabeledBlock"} -> IntroducedIn(s.body, 1)
                   [] s.j = "JavaTryStatement" ->
                         IntroducedIn(s.try_body, 1) \o IntroducedIn(s.catch_body, 1)
                         \o IntroducedIn(s.finally_body, 1)
                   [] OTHER -> <<>>
         IN Introduced(s) \o inner \o IntroducedIn(block, i + 1)

\* The temps of a method body, one entry per introduction.
TempsOf(block) ==
    SelectSeq(IntroducedIn(block, 1),
              LAMBDA n : \E k \in 0 .. 3 * (MaxTempStmts + 2) : n = temp_name_of(k))

Distinct(seq) == \A i, j \in DOMAIN seq : seq[i] = seq[j] => i = j

\* C19: the temp counter is 0 when the lowering of a function body starts and
\* has, when visit_FunctionDef returns, the value it had just before the def was
\* entered; and in one method body (main, or the call of one function) the temps
\* introduced, as variables or as labels, are pairwise distinct.
C19_TempsDistinct ==
    /\ Entered => n_temps = 0
    /\ Emitted =>
          /\ n_temps = last.frame.pre.n_temps
          /\ Distinct(TempsOf(functions[last.node.name]))
    /\ \A r \in DOMAIN heap : Distinct(TempsOf(heap[r]))
    /\ stack = <<>> => Distinct(TempsOf(block_simplify(global_code)))

\* C19's case: main took temp0, f then took temp0 (and more) for itself, and the
\* next temp of main, taken after the def returned, is temp1.
C19_Witness ==
    /\ stack = <<>>
    /\ "f" \in DOMAIN functions
    /\ temp_name_of(0) \in Range(TempsOf(functions["f"]))
    /\ temp_name_of(1) \in Range(TempsOf(functions["f"]))
    /\ TempsOf(global_code) = <<temp_name_of(0), temp_name_of(1)>>
    /\ Len(global_code) = 6
    /\ global_code[4] = Initializer("f")

(***************************************************************************)
(* IndentedWriter.  The file is the sequence of the lines written, each    *)
(* with the number of indentation units written before it.                 *)
(***************************************************************************)
startswith_close(line) == line # <<>> /\ line[1] = "}"
endswith_open(line) == line # <<>> /\ line[Len(line)] = "{"

\* An IndentedWriter.write that closes a block after writing the line.
IndentedWriter_write_close_late(w, line) ==
    IF line = <<>>
    THEN [w EXCEPT !.f = Append(@, [units |-> 0, line |-> line])]
    ELSE LET w1 == [w EXCEPT !.f = Append(@, [units |-> w.indent, line |-> line])]
             w2 == IF startswith_close(line) THEN [w1 EXCEPT !.indent = @ - 1] ELSE w1
         IN IF endswith_open(line) THEN [w2 EXCEPT !.indent = @ + 1] ELSE w2

\* IndentedWriter.write; '    ' * n is the empty string for n <= 0.
IndentedWriter_write(w, line) ==
    IF line = <<>>
    THEN [w EXCEPT !.f = Append(@, [units |-> 0, line |-> line])]
    ELSE LET w1 == IF startswith_close(line) THEN [w EXCEPT !.indent = @ - 1] ELSE w
             units == IF w1.indent > 0 THEN w1.indent ELSE 0
             w2 == [w1 EXCEPT !.f = Append(@, [units |-> units, line |-> line])]
         IN IF endswith_open(line) THEN [w2 EXCEPT !.indent = @ + 1] ELSE w2

RECURSIVE IndentedWriter_writes(_, _, _)
\* The writers after each of the write calls of write_java, the first included.
IndentedWriter_writes(ws, lines, i) ==
    IF i > Len(lines) THEN ws
    ELSE IndentedWriter_writes(Append(ws, IndentedWriter_write(ws[Len(ws)], lines[i])),
                               lines, i + 1)

\* write_java as the writer sees it: IndentedWriter(f, 0), then one write per line.
write_java_writers(py_name) ==
    IndentedWriter_writes(<<[f |-> <<>>, indent |-> 0]>>,
                          write_java(py_name, HashOrder, "ascending"), 1)

(***************************************************************************)
(* Classes with nested blocks: ifs with else, try statements, loops and    *)
(* functions.                                                              *)
(***************************************************************************)
InitWrite == Fresh /\ fuel = MaxWriteStmts

NextWrite ==
    \/ visit_Expr(ExprX)
    \/ visit_If_body(IfX)
    \/ visit_If_orelse
    \/ visit_If_end
    \/ visit_For_body(ForElse)
    \/ visit_For_orelse
    \/ visit_For_end
    \/ \E node \in {TryExcept, TryFinally} : visit_Try_body(node)
    \/ visit_Try_handler
    \/ visit_Try_finalbody
    \/ visit_Try_end
    \/ visit_FunctionDef_body(DefF)
    \/ visit_FunctionDef_end

SpecWrite == InitWrite /\ [][NextWrite]_vars

\* C20: while the lines of the class of a translated unit are written, the
\* depth of the writer is never negative; a line that starts with `}` is written
\* at the depth less one, a line that ends in `{` leaves the depth one more than
\* the depth it was written at, any other line is written at the depth and
\* leaves it; an empty line is written with no indentation and leaves the depth;
\* and the depth is 0 after the last line.
C20_Indentation ==
    stack = <<>> =>
        LET lines == write_java("t", HashOrder, "ascending")
            ws == write_java_writers("t")
        IN /\ Len(ws) = Len(lines) + 1
           /\ \A i \in DOMAIN ws : ws[i].indent >= 0
           /\ ws[Len(ws)].indent = 0
           /\ \A i \in DOMAIN lines :
                 LET line == lines[i]
                     before == ws[i].indent
                     after == ws[i + 1].indent
                     written == ws[i + 1].f[i]
                     at == IF startswith_close(line) THEN before - 1 ELSE before
                 IN /\ Len(ws[i + 1].f) = i
                    /\ written.line = line
                    /\ line = <<>> => written.units = 0 /\ after = before
                    /\ line # <<>> =>
                          /\ written.units = at
                          /\ after = IF endswith_open(line) THEN at + 1 ELSE at

\* C20's case: main holds a line `} else {` written at depth 2 between lines
\* at depth 3.
C20_Witness ==
    /\ stack = <<>>
    /\ LET ws == write_java_writers("t")
           f == ws[Len(ws)].f
       IN \E i \in DOMAIN f :
             /\ f[i] = [units |-> 2, line |-> <<"}", " else ", "{">>]
             /\ f[i - 1].units = 3
             /\ f[i + 1].units = 3

(***************************************************************************)
(* The iteration sentinel: for loops over a name and over a tuple target,  *)
(* unpacking assignments, and the intrinsic names used as a program may    *)
(* use any name.                                                           *)
(***************************************************************************)
PairAB == Tuple(<<Name("a"), Name("b")>>)
NextOfY == Call(Name("__pythonj_next__"), <<Name("y")>>)
NullFors == {For(t, Name("y"), FALSE) : t \in {Name("x"), PairAB}}
NullAssigns ==
    {Assign(<<Name("x")>>, v) : v \in {Name("__pythonj_null__"), NextOfY}}
    \cup {Assign(<<PairAB>>, Name("y"))}
NullExprs == {Expr(Name("__pythonj_null__")), Expr(NextOfY)}

InitNull == Fresh /\ fuel = MaxNullStmts

NextNull ==
    \/ \E node \in NullFors : visit_For_body(node)
    \/ visit_For_orelse
    \/ \E node \in NullAssigns : visit_Assign(node)
    \/ \E node \in NullExprs : visit_Expr(node)
    \/ visit_FunctionDef_body(DefF)
    \/ visit_FunctionDef_end

SpecNull == InitNull /\ [][NextNull]_vars

\* The user-visible slots of the names of these modules.
Slots ==
    UNION {{pylocal(n), pyglobal(n)} :
           n \in {"x", "y", "a", "b", "f", "__pythonj_null__", "__pythonj_next__"}}
IsTempName(n) == \E k \in 0 .. 3 * (MaxNullStmts + 2) : n = temp_name_of(k)
IsNext(e) == e.j = "JavaMethodCall" /\ e.method = "next"
Null == JavaIdentifier("null")

\* The expressions a statement holds directly, those of the head of a for
\* statement left out.
BodyExprs(s) == IF s.j = "JavaForStatement" THEN {} ELSE StmtExprs(s)

RECURSIVE SentinelGuarded(_, _)
\* In the block, a slot is assigned from a temp that holds the result of next()
\* only inside the body of the for statement whose condition tests that temp
\* against null; temps are the temps of the for statements around the block.
SentinelGuarded(block, temps) ==
    \A i \in DOMAIN block :
        LET s == block[i] IN
        /\ s.j = "JavaAssignStatement" /\ s.lhs \in Slots =>
              /\ s.rhs # Null
              /\ ~IsNext(s.rhs)
              /\ (s.rhs.j = "JavaIdentifier" /\ IsTempName(s.rhs.name)) => s.rhs.name \in temps
        /\ s.j = "JavaVariableDecl" /\ s.value # NoValue => s.value # Null /\ ~IsNext(s.value)
        /\ \A e \in UNION {SubExprs(d) : d \in BodyExprs(s)} : ~IsNext(e)
        /\ s.j = "JavaForStatement" =>
              /\ IsTempName(s.init_name) /\ s.incr_name = s.init_name
              /\ IsNext(s.init_value) /\ s.incr_value = s.init_value
              /\ s.cond = JavaBinaryOp("!=", JavaIdentifier(s.init_name), Null)
              /\ SentinelGuarded(s.body, temps \cup {s.init_name})
        /\ s.j # "JavaForStatement" => \A b \in Blocks(s) : SentinelGuarded(b, temps)

\* The elements an unpacking binds, obtained otherwise than through
\* Runtime.nextRequireNonNull: none.
UnpackedRaw(stmts) ==
    {s \in stmts :
        /\ s.j = "JavaAssignStatement"
        /\ s.lhs \in {pylocal("a"), pyglobal("a"), pylocal("b"), pyglobal("b")}
        /\ ~(s.rhs.j = "JavaMethodCall" /\ s.rhs.method = "nextRequireNonNull"
             /\ s.rhs.obj = JavaIdentifier("Runtime"))}

\* C21: the intrinsics flag is false; no statement built assigns null or a raw
\* next() result to a pylocal_ or pyglobal_ slot: the result of next() is held in
\* the temp of a for statement and bound to the target only in the body of that
\* statement, under `temp != null`; unpacking takes every element through
\* Runtime.nextRequireNonNull; and __pythonj_null__ and __pythonj_next__(x) are
\* lowered as an ordinary name and an ordinary call.
C21_SentinelStaysInTemps ==
    /\ allow_intrinsics = FALSE
    /\ \A r \in DOMAIN heap : SentinelGuarded(heap[r], {})
    /\ \A f \in DOMAIN functions : SentinelGuarded(functions[f], {})
    /\ UnpackedRaw(BuiltStmts) = {}
    /\ \A r \in obs.refs :
          r.name = "__pythonj_null__" =>
             r.expr = IF r.infn THEN pylocal(r.name) ELSE pyglobal(r.name)
    /\ last.op \in {"visit_Assign", "visit_Expr"} /\ last.node.value = NextOfY =>
          LET e == IF last.op = "visit_Expr" THEN LastStmt.call ELSE LastStmt.rhs
          IN /\ e.j = "JavaMethodCall" /\ e.method = "call"
             /\ e.obj \in Slots

\* C21's case: in f, a for loop over a tuple target was lowered, and then
\* `x = __pythonj_next__(y)` as an ordinary call.
C21_Witness ==
    /\ in_function
    /\ last.op = "visit_Assign" /\ last.node.value = NextOfY
    /\ Len(heap[code]) >= 3
    /\ heap[code][2].j = "JavaForStatement"
    /\ Len(heap[code][2].body) = 4
    /\ heap[code][2].body[2].rhs.method = "nextRequireNonNull"
    /\ LastStmt.lhs = pylocal("x")

(***************************************************************************)
(* Unpacking: assignments to tuple and list targets of simple names.       *)
(***************************************************************************)
RECURSIVE NameSeqs(_)
\* The sequences of n names out of a and b.
NameSeqs(n) ==
    IF n = 0 THEN {<<>>}
    ELSE {Append(es, Name(x)) : es \in NameSeqs(n - 1), x \in {"a", "b"}}
List(elts) == [t |-> "List", elts |-> elts]
UnpackTargets ==
    UNION {{Tuple(es), List(es)} : es \in UNION {NameSeqs(n) : n \in 0..MaxElts}}
UnpackAssigns ==
    {Assign(<<t>>, v) : t \in UnpackTargets, v \in {Name("y"), Call(Name("f"), <<>>)}}

InitUnpack == Fresh /\ fuel = MaxUnpackStmts

NextUnpack ==
    \/ \E node \in UnpackAssigns : visit_Assign(node)
    \/ visit_FunctionDef_body(DefF)
    \/ visit_FunctionDef_end

SpecUnpack == InitUnpack /\ [][NextUnpack]_vars

LastUnpack ==
    /\ last.op = "visit_Assign"
    /\ last.node.targets[1].t \in {"Tuple", "List"}

\* C22: an assignment to a tuple or list target of N simple names appends
\* `var t = <rhs>.iter();` with t a new temp, then N assignments, the i-th of the
\* i-th element's slot from Runtime.nextRequireNonNull(t), then
\* `Runtime.nextRequireNull(t);` and nothing else; the lowered right-hand side
\* occurs once in them; and the names bound are in the name set of the scope.
C22_Unpacking ==
    LastUnpack =>
        LET elts == last.node.targets[1].elts
            N == Len(elts)
            rhs == Lowered(last.node.value)
            t == TempId(last.pre.n_temps)
            Runtime == JavaIdentifier("Runtime")
        IN /\ n_temps = last.pre.n_temps + 1
           /\ Appended =
                 <<JavaVariableDecl("var", t.name, JavaMethodCall(rhs, "iter", <<>>))>>
                 \o [i \in 1..N |->
                        JavaAssignStatement(ident_expr(elts[i].id),
                            JavaMethodCall(Runtime, "nextRequireNonNull", <<t>>))]
                 \o <<JavaExprStatement(JavaMethodCall(Runtime, "nextRequireNull", <<t>>))>>
           /\ Count(Appended[1].value, rhs)
                 + CountAll([i \in 1..N |-> Appended[i + 1].rhs], 1, rhs)
                 + Count(Appended[N + 2].call, rhs) = 1
           /\ {elts[i].id : i \in 1..N}
                 \subseteq (IF in_function THEN local_names ELSE global_names)

\* C22's case: `a, b = f()` after another unpacking took temp0.
C22_Witness ==
    /\ LastUnpack
    /\ last.pre.n_temps = 1
    /\ last.node.targets[1] = Tuple(<<Name("a"), Name("b")>>)
    /\ last.node.value = Call(Name("f"), <<>>)
    /\ Len(Appended) = 4
    /\ Appended[2].lhs = pyglobal("a")
    /\ Appended[3].lhs = pyglobal("b")

(***************************************************************************)
(* Bytes literals: every single byte, and longer literals out of the bytes *)
(* at the ends of the two halves of the range.                             *)
(***************************************************************************)
ByteSamples == {0, 127, 128, 255}
RECURSIVE SampleSeqs(_)
SampleSeqs(n) ==
    IF n = 0 THEN {<<>>}
    ELSE {Append(k, x) : k \in SampleSeqs(n - 1), x \in ByteSamples}
BytesLiterals ==
    {<<x>> : x \in 0..255} \cup UNION {SampleSeqs(n) : n \in 0..MaxBytesLen}
BytesExprs == {Expr(Constant(PyBytesValue(k))) : k \in BytesLiterals}

InitBytes == Fresh /\ fuel = MaxBytesStmts

NextBytes == \E node \in BytesExprs : visit_Expr(node)

SpecBytes == InitBytes /\ [][NextBytes]_vars

RECURSIVE JoinInts(_, _)
\* The decimal numbers of a sequence of integers from the i-th on, joined by ", ".
JoinInts(ns, i) ==
    IF i > Len(ns) THEN ""
    ELSE ToString(ns[i]) \o (IF i < Len(ns) THEN ", " ELSE "") \o JoinInts(ns, i + 1)

\* The line of the pool bytes k with the elements es.
BytesLineOf(k, es) ==
    <<"private static final PyBytes bytes_singleton_" \o ToString(all_bytes[k])
      \o " = new PyBytes(new byte[] {" \o JoinInts(es, 1) \o "});">>

\* C23: for every byte x of a pool bytes literal the integer emitted lies in
\* -128..127 and is congruent to x modulo 256, x itself up to 127 and x - 256
\* from 128 on; the array emitted has one element per byte, in the literal's
\* order.
C23_SignedBytes ==
    LET out == EmitContext_emit_java("ascending") IN
    \A k \in DOMAIN all_bytes :
        LET elts == byte_array(k).elts
            expected == [i \in DOMAIN k |-> IF k[i] <= 127 THEN k[i] ELSE k[i] - 256]
        IN /\ Len(elts) = Len(k)
           /\ \A i \in DOMAIN k :
                 /\ elts[i].j = "JavaIntLiteral"
                 /\ elts[i].value \in -128..127
                 /\ (elts[i].value - k[i]) % 256 = 0
                 /\ elts[i].value = expected[i]
           /\ Occurs(out, BytesLineOf(k, expected))

\* C23's case: the literal b"\x80\x7f" was pooled and is emitted as {-128, 127}.
C23_Witness ==
    /\ <<128, 127>> \in DOMAIN all_bytes
    /\ Occurs(EmitContext_emit_java("ascending"),
              <<"private static final PyBytes bytes_singleton_0"
                \o " = new PyBytes(new byte[] {-128, 127});">>)

(***************************************************************************)
(* Expression statements: values that are calls and values that are not,   *)
(* at module level and in functions, in the arms of an if and after a      *)
(* return.                                                                 *)
(***************************************************************************)
CallF == Expr(Call(Name("f"), <<>>))
DiscardExprs == {ExprX, CallF}

InitDiscard == Fresh /\ fuel = MaxDiscardStmts

NextDiscard ==
    \/ \E node \in DiscardExprs : visit_Expr(node)
    \/ visit_Return(ReturnNone)
    \/ visit_If_body(IfX)
    \/ visit_If_orelse
    \/ visit_If_end
    \/ visit_FunctionDef_body(DefF)
    \/ visit_FunctionDef_end

SpecDiscard == InitDiscard /\ [][NextDiscard]_vars

expr_discard == JavaIdentifier("expr_discard")
DiscardDecl == JavaVariableDecl("PyObject", "expr_discard", NoValue)

\* The statement holds, at any depth, an assignment to expr_discard.
AssignsDiscard(s) ==
    \E a \in {s} \cup UNION {SubStmts(b) : b \in Blocks(s)} :
        a.j = "JavaAssignStatement" /\ a.lhs = expr_discard
Declares(body) == \E k \in DOMAIN body : body[k] = DiscardDecl

\* The method body declares expr_discard before every statement of it that
\* assigns expr_discard, when there is one.
DeclaredBefore(body) ==
    (\E i \in DOMAIN body : AssignsDiscard(body[i])) =>
        \E k \in DOMAIN body :
            /\ body[k] = DiscardDecl
            /\ \A i \in DOMAIN body : AssignsDiscard(body[i]) => k < i

\* What visit_Expr appends, and the declarations of the method bodies.
DiscardEmitted ==
    /\ last.op = "visit_Expr" =>
          LET value == Lowered(last.node.value)
          IN LastStmt = IF value.j \in {"JavaMethodCall", "JavaCreateObject"}
                        THEN JavaExprStatement(value)
                        ELSE JavaAssignStatement(expr_discard, value)
    /\ DeclaredBefore(global_code)
    /\ \A f \in DOMAIN functions : DeclaredBefore(functions[f])

\* C24 as stated: an expression statement whose lowered value is a constructor
\* or method call is emitted as an expression statement, any other as an
\* assignment to expr_discard; a method body that holds such an assignment
\* declares `PyObject expr_discard;` before every one of them; and a function
\* body that holds no such assignment does not declare it.
C24_AsStated ==
    /\ DiscardEmitted
    /\ \A f \in DOMAIN functions :
          (~\E i \in DOMAIN functions[f] : AssignsDiscard(functions[f][i]))
              => ~Declares(functions[f])

\* C24 amended: a function's call body declares expr_discard exactly when an
\* expression statement of the function was lowered to an assignment to
\* expr_discard, also when the assignment is then dropped with the statements
\* that follow a statement ending control flow; the flag that records it is
\* cleared on entry of a def and set by such a lowering only.
C24_DiscardDeclared ==
    /\ [](/\ DiscardEmitted
          /\ Entered => ~used_expr_discard
          /\ Emitted => (Declares(functions[last.node.name]) <=> used_expr_discard))
    /\ [][used_expr_discard' # used_expr_discard =>
             \/ Entered' /\ ~used_expr_discard'
             \/ last'.op = "visit_Expr" /\ last'.node = ExprX /\ used_expr_discard']_vars

\* C24's case: f was emitted with `x` in an arm of an if and a call as a
\* statement: the call body declares expr_discard before the if.
C24_Witness ==
    /\ Emitted
    /\ used_expr_discard
    /\ LET call == functions["f"]
       IN /\ call[3] = DiscardDecl
          /\ call[4].j = "JavaIfStatement"
          /\ AssignsDiscard(call[4])

\* C25: inside a function body, every reference to a parameter of the function
\* that is not a built-in and not declared global there resolves to
\* pylocal_<arg>, the slot the call body initialises from args[i], also when the
\* name is already assigned at module scope.
C25_ParameterIsLocal ==
    \A r \in obs.refs :
        (r.infn /\ r.name \in Range(obs.args) /\ r.name \notin BUILTINS
                /\ r.name \notin obs.declared)
        => r.expr = pylocal(r.name)

=============================================================================
